---- MODULE Spec2Model ----
(***************************************************************************)
(* Model of the Google Sheets -> database cache synchronisation of         *)
(* TeamPulse: GoogleSheetsSyncService (sync_schedule_data,                 *)
(* _fetch_with_retry, _store_schedule_data), the ledger (SyncLog), the     *)
(* cache (CachedSchedule) and the cache-first read endpoints.              *)
(*                                                                         *)
(* Text is modelled as a sequence of characters (one-character strings;    *)
(* a CJK character is written as one atom such as "U54E1"), so that        *)
(* strip, upper, lower, split and substring tests are computed.            *)
(***************************************************************************)
EXTENDS Integers, Sequences, FiniteSets, TLC

(***************************************************************************)
(* Bounds of the model                                                     *)
(***************************************************************************)
MaxInvocations == 2
MaxFreshInvocations == 3
MaxTime == 15
MaxReads == 3
MaxLinks == 2
MaxSweeps == 2
MaxLiveInvocations == 1
MaxCellLen == 2
MaxElapse == 2
MaxRetriesBound == 4

(***************************************************************************)
(* Program constants                                                       *)
(***************************************************************************)
min_minutes == 10
max_retries == 3
initial_delay == 2

None == "None"

(***************************************************************************)
(* Text helpers (Python str methods as used by the service)                *)
(***************************************************************************)
IsSubstr(a, b) ==
    \E i \in 0..(Len(b) - Len(a)) : SubSeq(b, i + 1, i + Len(a)) = a

UpperChar(c) ==
    CASE c = "d" -> "D" [] c = "e" -> "E" [] c = "n" -> "N"
      [] c = "o" -> "O" [] c = "f" -> "F" [] c = "u" -> "U"
      [] c = "l" -> "L" [] c = "q" -> "Q" [] c = "t" -> "T"
      [] c = "a" -> "A" [] c = "r" -> "R" [] c = "i" -> "I"
      [] c = "m" -> "M" [] c = "h" -> "H" [] c = "x" -> "X"
      [] OTHER -> c

LowerChar(c) ==
    CASE c = "D" -> "d" [] c = "E" -> "e" [] c = "N" -> "n"
      [] c = "O" -> "o" [] c = "F" -> "f" [] c = "U" -> "u"
      [] c = "L" -> "l" [] c = "Q" -> "q" [] c = "T" -> "t"
      [] c = "A" -> "a" [] c = "R" -> "r" [] c = "I" -> "i"
      [] c = "M" -> "m" [] c = "H" -> "h" [] c = "X" -> "x"
      [] OTHER -> c

Upper(s) == [i \in 1..Len(s) |-> UpperChar(s[i])]
Lower(s) == [i \in 1..Len(s) |-> LowerChar(s[i])]

RECURSIVE LStrip(_)
LStrip(s) == IF s # <<>> /\ Head(s) = " " THEN LStrip(Tail(s)) ELSE s

RECURSIVE RStrip(_)
RStrip(s) ==
    IF s # <<>> /\ s[Len(s)] = " " THEN RStrip(SubSeq(s, 1, Len(s) - 1)) ELSE s

Strip(s) == RStrip(LStrip(s))

\* str.split(ch): the parts between the occurrences of ch
RECURSIVE SplitOn(_, _)
SplitOn(s, ch) ==
    IF \A i \in 1..Len(s) : s[i] # ch
    THEN <<s>>
    ELSE LET k == CHOOSE i \in 1..Len(s) :
                      s[i] = ch /\ \A j \in 1..(i - 1) : s[j] # ch
         IN  <<SubSeq(s, 1, k - 1)>> \o SplitOn(SubSeq(s, k + 1, Len(s)), ch)

Digits == {"0", "1", "2", "3", "4", "5", "6", "7", "8", "9"}

DigitVal(c) ==
    CASE c = "0" -> 0 [] c = "1" -> 1 [] c = "2" -> 2 [] c = "3" -> 3
      [] c = "4" -> 4 [] c = "5" -> 5 [] c = "6" -> 6 [] c = "7" -> 7
      [] c = "8" -> 8 [] c = "9" -> 9

IsDigits(s) == s # <<>> /\ \A i \in 1..Len(s) : s[i] \in Digits

RECURSIVE ToNat(_)
ToNat(s) ==
    IF s = <<>> THEN 0
    ELSE 10 * ToNat(SubSeq(s, 1, Len(s) - 1)) + DigitVal(s[Len(s)])

(***************************************************************************)
(* _parse_date: a column header to a date <<year, month, day>>, or NoDate  *)
(***************************************************************************)
\* the result of a failed parse (Python None)
NoDate == <<>>

IsLeap(y) == (y % 4 = 0 /\ y % 100 # 0) \/ y % 400 = 0

DaysIn(y, m) ==
    IF m = 2 THEN (IF IsLeap(y) THEN 29 ELSE 28)
    ELSE IF m \in {4, 6, 9, 11} THEN 30 ELSE 31

ValidDate(y, m, d) == y >= 1 /\ m \in 1..12 /\ d >= 1 /\ d <= DaysIn(y, m)

\* one strptime field: %Y is exactly four digits, %m and %d one or two
IsYearField(p) == IsDigits(p) /\ Len(p) = 4
IsShortField(p) == IsDigits(p) /\ Len(p) \in {1, 2}

MkDate(yp, mp, dp) ==
    IF IsYearField(yp) /\ IsShortField(mp) /\ IsShortField(dp)
       /\ ValidDate(ToNat(yp), ToNat(mp), ToNat(dp))
    THEN <<ToNat(yp), ToNat(mp), ToNat(dp)>>
    ELSE NoDate

\* strptime(s, '%Y<sep>%m<sep>%d')
StrpYMD(s, sep) ==
    LET p == SplitOn(s, sep)
    IN  IF Len(p) = 3 THEN MkDate(p[1], p[2], p[3]) ELSE NoDate

\* strptime(s, '%m/%d/%Y')
StrpMDY(s) ==
    LET p == SplitOn(s, "/")
    IN  IF Len(p) = 3 THEN MkDate(p[3], p[1], p[2]) ELSE NoDate

\* strptime(s, '%Y U5E74 %m U6708 %d U65E5') (year, month, day characters)
StrpCJK(s) ==
    LET a == SplitOn(s, "U5E74")
    IN  IF Len(a) # 2 THEN NoDate
        ELSE LET b == SplitOn(a[2], "U6708")
             IN  IF Len(b) # 2 THEN NoDate
                 ELSE LET c == SplitOn(b[2], "U65E5")
                      IN  IF Len(c) = 2 /\ c[2] = <<>>
                          THEN MkDate(a[1], b[1], c[1])
                          ELSE NoDate

IsSep(c) == c \in {"/", "-"}

\* the groups of (\d{4})[\/\-](\d{1,2})[\/\-](\d{1,2}) matched at position i
\* (greedy, with backtracking on the month), or NoDate
RegexAt(s, i) ==
    LET n == Len(s)
        dig(k) == k <= n /\ s[k] \in Digits
        sep(k) == k <= n /\ IsSep(s[k])
        day(k) == IF dig(k + 1) THEN SubSeq(s, k, k + 1) ELSE SubSeq(s, k, k)
    IN  IF ~(dig(i) /\ dig(i + 1) /\ dig(i + 2) /\ dig(i + 3) /\ sep(i + 4))
        THEN NoDate
        ELSE IF dig(i + 5) /\ dig(i + 6) /\ sep(i + 7) /\ dig(i + 8)
        THEN <<SubSeq(s, i, i + 3), SubSeq(s, i + 5, i + 6), day(i + 8)>>
        ELSE IF dig(i + 5) /\ sep(i + 6) /\ dig(i + 7)
        THEN <<SubSeq(s, i, i + 3), SubSeq(s, i + 5, i + 5), day(i + 7)>>
        ELSE NoDate

\* re.search: the leftmost match; an invalid calendar date gives NoDate
RegexDate(s) ==
    LET hits == {i \in 1..Len(s) : RegexAt(s, i) # NoDate}
    IN  IF hits = {} THEN NoDate
        ELSE LET i == CHOOSE k \in hits : \A j \in hits : k <= j
                 g == RegexAt(s, i)
             IN  IF ValidDate(ToNat(g[1]), ToNat(g[2]), ToNat(g[3]))
                 THEN <<ToNat(g[1]), ToNat(g[2]), ToNat(g[3])>>
                 ELSE NoDate

_parse_date(date_str) ==
    LET s == Strip(date_str)
    IN  IF date_str = <<>> THEN NoDate
        ELSE IF StrpYMD(s, "-") # NoDate THEN StrpYMD(s, "-")
        ELSE IF StrpYMD(s, "/") # NoDate THEN StrpYMD(s, "/")
        ELSE IF StrpMDY(s) # NoDate THEN StrpMDY(s)
        ELSE IF StrpCJK(s) # NoDate THEN StrpCJK(s)
        ELSE RegexDate(s)

(***************************************************************************)
(* _normalize_shift_type and _get_time_range                               *)
(***************************************************************************)
S_OFF == <<"O", "F", "F">>
S_NULL == <<"N", "U", "L", "L">>
S_REST == <<"U4F11">>
S_LEAVE == <<"U4F11", "U5047">>
S_EVENING == <<"E", "V", "E", "N", "I", "N", "G">>
S_NIGHT == <<"N", "I", "G", "H", "T">>
S_DAY == <<"D", "A", "Y">>
S_SWING == <<"U5C0F", "U591C">>
S_GRAVE == <<"U5927", "U591C">>
S_WHITE == <<"U767D", "U73ED">>

\* keywords of a complex shift description (counter, second line, pharmacy,
\* staff, COUNTER, DESK, PHARMACY)
ShiftKeywords ==
    { <<"U6AC3", "U53F0">>, <<"U4E8C", "U7DDA">>, <<"U85E5", "U5C40">>,
      <<"U4EBA", "U529B">>,
      <<"C", "O", "U", "N", "T", "E", "R">>, <<"D", "E", "S", "K">>,
      <<"P", "H", "A", "R", "M", "A", "C", "Y">> }

\* mutant: a text that is no code and holds no keyword is a day off
_normalize_shift_type_DefaultOff(shift_value) ==
    LET shift_upper == Strip(Upper(shift_value))
    IN  IF shift_value = <<>> THEN "OFF"
        ELSE IF shift_upper \in {S_OFF, S_REST, S_LEAVE, S_NULL, <<>>} THEN "OFF"
        ELSE IF \E k \in ShiftKeywords : IsSubstr(k, shift_upper) THEN "D"
        ELSE IF shift_upper \in {<<"E">>, S_EVENING, S_SWING} THEN "E"
        ELSE IF shift_upper \in {<<"N">>, S_NIGHT, S_GRAVE} THEN "N"
        ELSE IF shift_upper \in {<<"D">>, S_DAY, S_WHITE} THEN "D"
        ELSE "OFF"

_normalize_shift_type(shift_value) ==
    LET shift_upper == Strip(Upper(shift_value))
    IN  IF shift_value = <<>> THEN "OFF"
        ELSE IF shift_upper \in {S_OFF, S_REST, S_LEAVE, S_NULL, <<>>} THEN "OFF"
        ELSE IF \E k \in ShiftKeywords : IsSubstr(k, shift_upper) THEN "D"
        ELSE IF shift_upper \in {<<"E">>, S_EVENING, S_SWING} THEN "E"
        ELSE IF shift_upper \in {<<"N">>, S_NIGHT, S_GRAVE} THEN "N"
        ELSE IF shift_upper \in {<<"D">>, S_DAY, S_WHITE} THEN "D"
        ELSE IF Len(shift_upper) = 1 /\ shift_upper \in {<<"D">>, <<"E">>, <<"N">>}
        THEN shift_upper[1]
        ELSE "D"

_get_time_range(shift_type) ==
    CASE shift_type = "D" -> "08:00 - 16:00"
      [] shift_type = "E" -> "16:00 - 00:00"
      [] shift_type = "N" -> "00:00 - 08:00"
      [] shift_type = "OFF" -> "--"
      [] OTHER -> "--"

(***************************************************************************)
(* Configuration data: schedule definitions, users, employee mappings      *)
(***************************************************************************)
\* ScheduleDefinition rows (read-only to the sync subsystem)
ScheduleDefinitions ==
    { [scheduleDefID |-> "T1", tenantID |-> "A", is_active |-> TRUE],
      [scheduleDefID |-> "T2", tenantID |-> "B", is_active |-> FALSE],
      [scheduleDefID |-> "T3", tenantID |-> "C", is_active |-> TRUE] }

\* ids a caller may pass; "T9" matches no schedule definition
TargetIds == {"T1", "T2", "T3", "T9"}

\* mutant: an unknown id is answered with the rows of every schedule
GetScheduleDef_Any(id) ==
    IF \E d \in ScheduleDefinitions : d.scheduleDefID = id
    THEN {d \in ScheduleDefinitions : d.scheduleDefID = id}
    ELSE ScheduleDefinitions

\* ScheduleDefinition.query.get(id): the row, or the empty set
GetScheduleDef(id) == {d \in ScheduleDefinitions : d.scheduleDefID = id}

Users == {"u1", "u2", "u3"}

TenantOf(u) == IF u = "u3" THEN "B" ELSE "A"

I_E04 == <<"E", "0", "4">>
I_E0 == <<"E", "0">>
I_AMY == <<"A", "m", "y">>
I_AMY_E04 == <<"A", "m", "y", "/", "E", "0", "4">>
I_E041 == <<"E", "0", "4", "1">>
I_X9 == <<"X", "9">>

\* EmployeeMapping rows, in the order the query returns them
EmployeeMappings ==
    << [schedule_def_id |-> "T1", userID |-> "u1", sheets_identifier |-> I_E04,
        sheets_name_id |-> I_AMY_E04, is_active |-> TRUE],
       [schedule_def_id |-> "T1", userID |-> "u2", sheets_identifier |-> I_E0,
        sheets_name_id |-> <<>>, is_active |-> TRUE],
       [schedule_def_id |-> "T2", userID |-> "u3", sheets_identifier |-> I_E04,
        sheets_name_id |-> <<>>, is_active |-> TRUE] >>

\* mutant: the query returns the active mappings of every schedule
MappingsFor_All(schedule_def_id) ==
    SelectSeq(EmployeeMappings, LAMBDA m : m.is_active)

\* EmployeeMapping.query.filter_by(schedule_def_id=..., is_active=True).all()
MappingsFor(schedule_def_id) ==
    SelectSeq(EmployeeMappings,
              LAMBDA m : m.schedule_def_id = schedule_def_id /\ m.is_active)

(***************************************************************************)
(* identifier_to_user: a Python dict, kept as the sequence of its items in *)
(* insertion order; assigning an existing key keeps the key's position     *)
(***************************************************************************)
DictHas(d, k) == \E i \in 1..Len(d) : d[i].key = k

DictGet(d, k) == d[CHOOSE i \in 1..Len(d) : d[i].key = k].uid

DictPut(d, k, v) ==
    IF DictHas(d, k)
    THEN [i \in 1..Len(d) |-> IF d[i].key = k THEN [key |-> k, uid |-> v] ELSE d[i]]
    ELSE Append(d, [key |-> k, uid |-> v])

RECURSIVE PutParts(_, _, _)
PutParts(d, parts, uid) ==
    IF parts = <<>> THEN d
    ELSE PutParts(IF Strip(Head(parts)) # <<>>
                  THEN DictPut(d, Strip(Head(parts)), uid) ELSE d,
                  Tail(parts), uid)

PutMapping(d, m) ==
    LET d1 == DictPut(d, m.sheets_identifier, m.userID)
    IN  IF m.sheets_name_id = <<>> THEN d1
        ELSE LET d2 == DictPut(d1, m.sheets_name_id, m.userID)
             IN  IF \E i \in 1..Len(m.sheets_name_id) : m.sheets_name_id[i] = "/"
                 THEN PutParts(d2, SplitOn(m.sheets_name_id, "/"), m.userID)
                 ELSE d2

RECURSIVE BuildIdentifierToUser(_, _)
BuildIdentifierToUser(d, mappings) ==
    IF mappings = <<>> THEN d
    ELSE BuildIdentifierToUser(PutMapping(d, Head(mappings)), Tail(mappings))

identifier_to_user(schedule_def_id) ==
    BuildIdentifierToUser(<<>>, MappingsFor(schedule_def_id))

\* mutant: the first key in iteration order that matches as a substring
ResolveUser_PartialFirst(identifier, d) ==
    LET identifier_str == Strip(identifier)
        partial == {i \in 1..Len(d) : IsSubstr(identifier_str, d[i].key)
                                       \/ IsSubstr(d[i].key, identifier_str)}
    IN  IF partial = {} THEN None
        ELSE d[CHOOSE i \in partial : \A j \in partial : i <= j].uid

\* mutant: the substring loop keeps the last key that matches
ResolveUser_PartialLast(identifier, d) ==
    LET identifier_str == Strip(identifier)
        partial == {i \in 1..Len(d) : IsSubstr(identifier_str, d[i].key)
                                       \/ IsSubstr(d[i].key, identifier_str)}
    IN  IF DictHas(d, identifier_str) THEN DictGet(d, identifier_str)
        ELSE IF partial = {} THEN None
        ELSE d[CHOOSE i \in partial : \A j \in partial : j <= i].uid

\* the user a row's identifier resolves to, or None
ResolveUser(identifier, d) ==
    LET identifier_str == Strip(identifier)
        partial == {i \in 1..Len(d) : IsSubstr(identifier_str, d[i].key)
                                       \/ IsSubstr(d[i].key, identifier_str)}
    IN  IF DictHas(d, identifier_str) THEN DictGet(d, identifier_str)
        ELSE IF partial = {} THEN None
        ELSE d[CHOOSE i \in partial : \A j \in partial : i <= j].uid

(***************************************************************************)
(* Remote snapshots and fetch outcomes                                     *)
(***************************************************************************)
H_USERNAME == <<"u", "s", "e", "r", "n", "a", "m", "e">>
H_NAME == <<"n", "a", "m", "e">>
H_EMPLOYEE_ID == <<"e", "m", "p", "l", "o", "y", "e", "e", "_", "i", "d">>
\* the three CJK candidates: employee(name/ID), employee name/ID, employee
H_EMP_NAME_ID_PAREN ==
    <<"U54E1", "U5DE5", "(", "U59D3", "U540D", "/", "I", "D", ")">>
H_EMP_NAME_ID == <<"U54E1", "U5DE5", "U59D3", "U540D", "/", "I", "D">>
H_EMP == <<"U54E1", "U5DE5">>

\* the accepted identifier columns, in priority order
IdentifierColumns ==
    <<H_EMP_NAME_ID_PAREN, H_EMP_NAME_ID, H_EMP, H_USERNAME, H_EMPLOYEE_ID, H_NAME>>

H_1101 == <<"2", "0", "2", "5", "-", "1", "1", "-", "0", "1">>
H_1102 == <<"2", "0", "2", "5", "/", "1", "1", "/", "0", "2">>
H_1105 == <<"1", "1", "/", "0", "5", "/", "2", "0", "2", "5">>
H_1101_SLASH == <<"2", "0", "2", "5", "/", "1", "1", "/", "0", "1">>
H_NOTE == <<"n", "o", "t", "e">>

C_D == <<"D">>
C_E_LOWER == <<"e">>
C_N == <<"N">>
C_OFF == <<"O", "F", "F">>
C_NULL == <<"n", "u", "l", "l">>
C_X == <<"x">>
C_EMPTY == <<>>

\* sheets_data of a successful fetch.  sheets_ok: 'sheets' is a dict (a
\* payload where it is not makes _store_schedule_data raise); final_ok:
\* final_output['success']; a row holds one cell per column, <<>> for an
\* empty or missing cell.
Snapshots ==
    << \* 1: two users, one unparseable column
       [sheets_ok |-> TRUE, final_ok |-> TRUE,
        columns |-> <<H_USERNAME, H_1101, H_1102, H_NOTE>>,
        data |-> << <<I_E04, C_D, C_E_LOWER, C_X>>,
                    <<I_E0, C_N, C_NULL, C_X>> >>],
       \* 2: one user with fewer days, one unresolvable row
       [sheets_ok |-> TRUE, final_ok |-> TRUE,
        columns |-> <<H_NAME, H_1101, H_1105>>,
        data |-> << <<I_E04, C_D, C_OFF>>, <<I_X9, C_D, C_D>> >>],
       \* 3: two rows that resolve to the same user, two headers of one date
       [sheets_ok |-> TRUE, final_ok |-> TRUE,
        columns |-> <<H_USERNAME, H_1101, H_1102, H_1101_SLASH>>,
        data |-> << <<I_E04, C_D, C_EMPTY, C_N>>,
                    <<I_AMY, C_EMPTY, C_N, C_EMPTY>> >>],
       \* 4: no identifier column
       [sheets_ok |-> TRUE, final_ok |-> TRUE,
        columns |-> <<H_1101, H_1102>>,
        data |-> << <<C_D, C_D>> >>],
       \* 5: no header row
       [sheets_ok |-> TRUE, final_ok |-> TRUE, columns |-> <<>>,
        data |-> << <<>> >>],
       \* 6: final output sheet not available
       [sheets_ok |-> TRUE, final_ok |-> FALSE, columns |-> <<>>, data |-> <<>>],
       \* 7: malformed payload
       [sheets_ok |-> FALSE, final_ok |-> FALSE, columns |-> <<>>, data |-> <<>>],
       \* 8: three rows: a user, an unresolvable row, a user without shifts
       [sheets_ok |-> TRUE, final_ok |-> TRUE,
        columns |-> <<H_EMPLOYEE_ID, H_1101, H_1102>>,
        data |-> << <<I_E04, C_D, C_EMPTY>>, <<I_X9, C_D, C_D>>,
                    <<I_E0, C_EMPTY, C_NULL>> >>],
       \* 9: no row resolves to a user
       [sheets_ok |-> TRUE, final_ok |-> TRUE,
        columns |-> <<H_USERNAME, H_1101>>,
        data |-> << <<I_X9, C_D>>, <<C_EMPTY, C_N>> >>] >>

SnapshotIds == 1..Len(Snapshots)

M_429 == <<"H", "T", "T", "P", " ", "4", "2", "9">>
M_QUOTA == <<"Q", "u", "o", "t", "a">>
M_RATE == <<"R", "a", "t", "e", " ", "l", "i", "m", "i", "t">>
M_AUTH == <<"a", "u", "t", "h">>
M_UNKNOWN == <<"U", "n", "k", "n", "o", "w", "n", " ", "e", "r", "r", "o", "r">>
M_ATTR == <<"A", "t", "t", "r", "i", "b", "u", "t", "e", "E", "r", "r", "o", "r">>
M_DB == <<"d", "a", "t", "a", "b", "a", "s", "e", " ", "i", "s", " ",
          "l", "o", "c", "k", "e", "d">>

Messages == {M_429, M_QUOTA, M_RATE, M_AUTH}

\* what one call of fetch_schedule_data does: return sheets_data with
\* success, return an error result (with or without an 'error' key), or raise
FetchOutcomes ==
    [kind : {"ok"}, snap : SnapshotIds, has_error : {FALSE}, error : {<<>>}]
    \cup [kind : {"error"}, snap : {0}, has_error : {TRUE}, error : Messages]
    \cup [kind : {"error"}, snap : {0}, has_error : {FALSE}, error : {<<>>}]
    \cup [kind : {"raise"}, snap : {0}, has_error : {TRUE}, error : Messages]

S_429 == <<"4", "2", "9">>
S_QUOTA == <<"q", "u", "o", "t", "a">>
S_RATE_LIMIT == <<"r", "a", "t", "e", " ", "l", "i", "m", "i", "t">>

\* line 134: the test applied to the error of an error result
IsRateLimitResult(error) ==
    IsSubstr(S_429, error) \/ IsSubstr(S_QUOTA, Lower(error))
        \/ IsSubstr(S_RATE_LIMIT, Lower(error))

\* mutant: every raised exception counts as a rate limit
IsRateLimitException_AnyException(error_msg) == TRUE

\* line 149: the test applied to the message of a raised exception
IsRateLimitException(error_msg) ==
    IsSubstr(S_429, error_msg) \/ IsSubstr(S_QUOTA, Lower(error_msg))

(***************************************************************************)
(* _store_schedule_data, the part computed from the payload                *)
(***************************************************************************)
InSeq(x, q) == \E i \in 1..Len(q) : q[i] = x

\* lines 216-220: the first accepted identifier column the header holds,
\* <<>> when it holds none
FindIdentifierColumn(output_columns) ==
    LET found == {i \in 1..Len(IdentifierColumns) :
                      InSeq(IdentifierColumns[i], output_columns)}
    IN  IF found = {} THEN <<>>
        ELSE IdentifierColumns[CHOOSE i \in found : \A j \in found : i <= j]

\* row.get(col, ''): the cell of the first column of that name
RowGet(output_columns, row, col) ==
    IF InSeq(col, output_columns)
    THEN row[CHOOSE i \in 1..Len(output_columns) :
                 output_columns[i] = col
                 /\ \A j \in 1..(i - 1) : output_columns[j] # col]
    ELSE <<>>

\* mutant: a cell holding the text NULL is classified like any other
CellStored_KeepsNull(output_columns, row, date_col) ==
    /\ _parse_date(date_col) # NoDate
    /\ Strip(RowGet(output_columns, row, date_col)) # <<>>

\* lines 265-298: whether the cell of column date_col yields an entry
CellStored(output_columns, row, date_col) ==
    /\ _parse_date(date_col) # NoDate
    /\ Strip(RowGet(output_columns, row, date_col)) # <<>>
    /\ Upper(Strip(RowGet(output_columns, row, date_col))) # S_NULL

\* lines 285-291: the CachedSchedule built for one cell
CachedSchedule(schedule_def_id, user_id, date_obj, shift_type) ==
    [schedule_def_id |-> schedule_def_id, user_id |-> user_id, date |-> date_obj,
     shift_type |-> shift_type, time_range |-> _get_time_range(shift_type)]

\* lines 258-298: the entries one row yields for its user, in column order
RowEntries(schedule_def_id, user_id, output_columns, identifier_column, row) ==
    LET date_columns == SelectSeq(output_columns, LAMBDA col : col # identifier_column)
        stored == SelectSeq(date_columns,
                            LAMBDA col : CellStored(output_columns, row, col))
    IN  [i \in 1..Len(stored) |->
            CachedSchedule(schedule_def_id, user_id, _parse_date(stored[i]),
                _normalize_shift_type(Strip(RowGet(output_columns, row, stored[i]))))]

(***************************************************************************)
(* The database session of one sync: changes staged until a commit         *)
(***************************************************************************)
SameKey(a, b) ==
    a.schedule_def_id = b.schedule_def_id /\ a.user_id = b.user_id /\ a.date = b.date

NoSession == [cleared |-> {}, ins |-> {}]

\* mutant: the delete takes the entries of every user of the schedule
clear_user_schedule_WholeSchedule(sess, user_id, schedule_def_id) ==
    [cleared |-> sess.cleared \cup {<<u, schedule_def_id>> : u \in Users},
     ins |-> {e \in sess.ins : e.schedule_def_id # schedule_def_id}]

\* CachedSchedule.clear_user_schedule: delete every entry of (user, schedule)
\* the session sees, its own staged entries included; nothing is committed
clear_user_schedule(sess, user_id, schedule_def_id) ==
    [cleared |-> sess.cleared \cup {<<user_id, schedule_def_id>>},
     ins |-> {e \in sess.ins :
                 ~(e.user_id = user_id /\ e.schedule_def_id = schedule_def_id)}]

\* mutant: merge stages a further row whatever rows of the key are staged
SessionMerge_Add(sess, entry) ==
    [sess EXCEPT !.ins = @ \cup {entry}]

\* db.session.merge: insert, or replace the staged entry of the same key
SessionMerge(sess, entry) ==
    [sess EXCEPT !.ins = {e \in @ : ~SameKey(e, entry)} \cup {entry}]

RECURSIVE MergeAll(_, _)
MergeAll(sess, entries) ==
    IF entries = <<>> THEN sess
    ELSE MergeAll(SessionMerge(sess, Head(entries)), Tail(entries))

\* mutant: an insert that meets a committed row of its key is lost
ApplySession_InsertIfAbsent(rows, sess) ==
    {e \in rows : <<e.user_id, e.schedule_def_id>> \notin sess.cleared}
        \cup {x \in sess.ins : \A e \in rows : ~SameKey(e, x)}

\* db.session.commit applied to the committed rows of the cache
ApplySession(rows, sess) ==
    {e \in rows : /\ <<e.user_id, e.schedule_def_id>> \notin sess.cleared
                  /\ \A x \in sess.ins : ~SameKey(e, x)}
        \cup sess.ins

(***************************************************************************)
(* The ledger (SyncLog): a sequence of tickets, a ticket's id is its index *)
(***************************************************************************)
NoTime == -1

\* mutant: the new ticket takes the place of the schedule's latest ticket
create_sync_log_Replace(log, schedule_def_id, tenant_id, sync_type, triggered_by, t) ==
    LET new == [schedule_def_id |-> schedule_def_id, tenant_id |-> tenant_id,
                sync_type |-> sync_type, triggered_by |-> triggered_by,
                started_at |-> t, completed_at |-> -1, status |-> "pending",
                rows_synced |-> 0, users_synced |-> 0, duration |-> 0,
                has_error |-> FALSE, error_message |-> <<>>, marks |-> 0]
    IN  IF log # <<>> /\ log[Len(log)].schedule_def_id = schedule_def_id
        THEN [log EXCEPT ![Len(log)] = new]
        ELSE Append(log, new)

\* SyncLog.create_sync_log: a pending ticket started now
create_sync_log(log, schedule_def_id, tenant_id, sync_type, triggered_by, t) ==
    Append(log, [schedule_def_id |-> schedule_def_id, tenant_id |-> tenant_id,
                 sync_type |-> sync_type, triggered_by |-> triggered_by,
                 started_at |-> t, completed_at |-> NoTime, status |-> "pending",
                 rows_synced |-> 0, users_synced |-> 0, duration |-> 0,
                 has_error |-> FALSE, error_message |-> <<>>, marks |-> 0])

\* SyncLog.mark_completed: success iff no error message is given; marks
\* counts the calls made on the ticket
mark_completed(log, id, rows_synced, users_synced, has_error, error_message, t) ==
    [log EXCEPT ![id] =
        [@ EXCEPT !.completed_at = t,
                  !.status = IF has_error THEN "failed" ELSE "success",
                  !.rows_synced = rows_synced, !.users_synced = users_synced,
                  !.duration = t - log[id].started_at,
                  !.has_error = has_error, !.error_message = error_message,
                  !.marks = @ + 1]]

\* mutant: any ticket of the schedule started within the window counts
should_sync_AnyTicket(log, schedule_def_id, minutes, t) ==
    ~\E i \in 1..Len(log) :
        /\ log[i].schedule_def_id = schedule_def_id
        /\ t - log[i].started_at < minutes

\* SyncLog.should_sync: no ticket of the schedule completed successfully
\* within the last min_minutes
should_sync(log, schedule_def_id, minutes, t) ==
    ~\E i \in 1..Len(log) :
        /\ log[i].schedule_def_id = schedule_def_id
        /\ log[i].status = "success"
        /\ log[i].completed_at # NoTime
        /\ t - log[i].completed_at < minutes

\* mutant: the most recently completed successful ticket of the schedule
get_last_sync_LastSuccess(log, schedule_def_id) ==
    LET done == {i \in 1..Len(log) : /\ log[i].schedule_def_id = schedule_def_id
                                     /\ log[i].completed_at # NoTime
                                     /\ log[i].status = "success"}
    IN  IF done = {} THEN 0
        ELSE CHOOSE i \in done :
                 \A j \in done : \/ log[j].completed_at < log[i].completed_at
                                 \/ (log[j].completed_at = log[i].completed_at /\ j <= i)

\* SyncLog.get_last_sync(schedule_def_id=...): the id of the most recently
\* completed ticket of the schedule, 0 when there is none
get_last_sync(log, schedule_def_id) ==
    LET done == {i \in 1..Len(log) : /\ log[i].schedule_def_id = schedule_def_id
                                     /\ log[i].completed_at # NoTime}
    IN  IF done = {} THEN 0
        ELSE CHOOSE i \in done :
                 \A j \in done : \/ log[j].completed_at < log[i].completed_at
                                 \/ (log[j].completed_at = log[i].completed_at /\ j <= i)

(***************************************************************************)
(* State                                                                   *)
(***************************************************************************)
VARIABLES
    now,        \* the clock, in minutes
    ledger,     \* the committed SyncLog rows
    cache,      \* the committed CachedSchedule rows
    sync,       \* the sync_schedule_data invocations in progress, per thread
    started,    \* the number of invocations started so far
    SHEETS_AVAILABLE,   \* google_sheets_import.SHEETS_AVAILABLE
    request,    \* the last foreground read and what it did in its own context
    launched,   \* the background threads started and not yet run
    sweep,      \* the run of the scheduled sweep task in progress
    probe       \* the arguments and the value of a function under study

vars == <<now, ledger, cache, sync, started, SHEETS_AVAILABLE, request, launched, sweep, probe>>

\* the state of its callers, which sync_schedule_data never touches
readvars == <<SHEETS_AVAILABLE, request, launched, sweep, probe>>

Threads == {1, 2}

TickSteps == {5}

\* the dict sync_schedule_data returns; -1 and <<>> stand for an absent key
NoResult ==
    [success |-> FALSE, skipped |-> FALSE, rows_synced |-> -1, users_synced |-> -1,
     last_synced_at |-> NoTime, has_error |-> FALSE, error |-> <<>>,
     sync_log_id |-> 0]

NoOutcome == [kind |-> "none", snap |-> 0, has_error |-> FALSE, error |-> <<>>]

\* what is remembered of the invocation a thread made before this one
NoPrev ==
    [schedule_def_id |-> None, force |-> FALSE, sheets_data |-> 0,
     success |-> FALSE, skipped |-> FALSE, rows_synced |-> -1, users_synced |-> -1]

Idle ==
    [pc |-> "idle", schedule_def_id |-> None, force |-> FALSE, sync_log |-> 0,
     attempt |-> 0, fetches |-> 0, sleeps |-> <<>>, outcome |-> NoOutcome,
     all_rate_limited |-> TRUE, sheets_data |-> 0, row |-> 0,
     identifier_column |-> <<>>,
     rows_synced |-> 0, synced_users |-> {}, session |-> NoSession,
     result |-> NoResult, raised |-> FALSE, cache_at_start |-> {},
     ledger_at_start |-> 0, invoked_at |-> 0, prev |-> NoPrev]

\* no sweep is running
NoSweep ==
    [pc |-> "idle", todo |-> <<>>, results |-> <<>>, skipped |-> {},
     raised |-> FALSE, runs |-> 0]

\* no function is under study
NoProbe == [fn |-> "none"]

\* no foreground read has been made
NoRequest ==
    [n |-> 0, endpoint |-> "none", user_id |-> None, status |-> 0,
     source |-> "none", hit |-> FALSE, sheets_available |-> FALSE,
     direct_fetches |-> 0, launches |-> 0,
     month |-> <<>>, schedule_def_id |-> None, last_synced_at |-> NoTime,
     cache_empty |-> "absent", schedule |-> {}, sync_pc |-> "idle"]

Init ==
    /\ now = 0
    /\ ledger = <<>>
    /\ cache = {}
    /\ sync = [s \in Threads |-> Idle]
    /\ started = 0
    /\ SHEETS_AVAILABLE = FALSE
    /\ request = NoRequest
    /\ launched = <<>>
    /\ sweep = NoSweep
    /\ probe = NoProbe

(***************************************************************************)
(* sync_schedule_data, lines 38-62: lookup, freshness check, ticket        *)
(***************************************************************************)
M_NOT_FOUND == <<"n", "o", "t", " ", "f", "o", "u", "n", "d">>

\* mutant: the freshness window is five minutes
SkipsSync_ShortWindow(force, log, schedule_def_id, t) ==
    ~force /\ ~should_sync(log, schedule_def_id, 5, t)

\* mutant: an invocation is skipped as well while a ticket of the schedule
\* is pending
SkipsSync_SingleFlight(force, log, schedule_def_id, t) ==
    ~force /\ \/ ~should_sync(log, schedule_def_id, min_minutes, t)
              \/ \E i \in 1..Len(log) : /\ log[i].schedule_def_id = schedule_def_id
                                         /\ log[i].status = "pending"

\* mutant: a forced invocation is subject to the freshness check as well
SkipsSync_IgnoresForce(force, log, schedule_def_id, t) ==
    ~should_sync(log, schedule_def_id, min_minutes, t)

\* lines 46-47: the invocation is skipped
SkipsSync(force, log, schedule_def_id, t) ==
    ~force /\ ~should_sync(log, schedule_def_id, min_minutes, t)

\* lines 48-54: the result of a skipped invocation
SkippedResult(log, schedule_def_id) ==
    LET last_sync == get_last_sync(log, schedule_def_id)
    IN  [NoResult EXCEPT
            !.success = TRUE, !.skipped = TRUE,
            !.last_synced_at = IF last_sync # 0 /\ log[last_sync].completed_at # NoTime
                               THEN log[last_sync].completed_at ELSE NoTime]

\* lines 40-43, 73-76 and 102-105: a failure result
FailureResult(error_msg) ==
    [NoResult EXCEPT !.success = FALSE, !.has_error = TRUE, !.error = error_msg]

sync_schedule_data(s, schedule_def_id, sync_type, triggered_by, force) ==
    /\ sync[s].pc = "idle"
    /\ started' = started + 1
    /\ LET frame == [Idle EXCEPT !.schedule_def_id = schedule_def_id,
                                 !.force = force,
                                 !.cache_at_start = cache,
                                 !.ledger_at_start = Len(ledger),
                                 !.invoked_at = now,
                                 !.prev = sync[s].prev]
           defs == GetScheduleDef(schedule_def_id)
       IN  IF defs = {}
           THEN /\ sync' = [sync EXCEPT ![s] =
                        [frame EXCEPT !.pc = "done",
                                      !.result = FailureResult(M_NOT_FOUND)]]
                /\ UNCHANGED ledger
           ELSE IF SkipsSync(force, ledger, schedule_def_id, now)
           THEN /\ sync' = [sync EXCEPT ![s] =
                        [frame EXCEPT !.pc = "done",
                                      !.result = SkippedResult(ledger, schedule_def_id)]]
                /\ UNCHANGED ledger
           ELSE /\ ledger' = create_sync_log(ledger, schedule_def_id,
                                 (CHOOSE d \in defs : TRUE).tenantID,
                                 sync_type, triggered_by, now)
                /\ sync' = [sync EXCEPT ![s] =
                        [frame EXCEPT !.pc = "fetch", !.sync_log = Len(ledger) + 1]]
    /\ UNCHANGED <<now, cache>>

(***************************************************************************)
(* _fetch_with_retry, lines 120-164, and lines 68-76 of its caller         *)
(***************************************************************************)
RECURSIVE Pow2(_)
Pow2(n) == IF n = 0 THEN 1 ELSE 2 * Pow2(n - 1)

\* lines 136 and 150
BackoffDelay(attempt) == initial_delay * Pow2(attempt)

\* mutant: the loop gives up one attempt earlier
Retries_OneLess(attempt, outcome) ==
    CASE outcome.kind = "ok" -> FALSE
      [] outcome.kind = "error" ->
            IsRateLimitResult(outcome.error) /\ attempt < max_retries - 2
      [] outcome.kind = "raise" ->
            attempt < max_retries - 2 /\ IsRateLimitException(outcome.error)

\* mutant: every failed attempt is retried, whatever its error
Retries_AnyError(attempt, outcome) ==
    outcome.kind # "ok" /\ attempt < max_retries - 1

\* lines 129-159: after the fetch call of this attempt, sleep and try again?
Retries(attempt, outcome) ==
    CASE outcome.kind = "ok" -> FALSE
      [] outcome.kind = "error" ->
            IsRateLimitResult(outcome.error) /\ attempt < max_retries - 1
      [] outcome.kind = "raise" ->
            attempt < max_retries - 1 /\ IsRateLimitException(outcome.error)

\* line 71: sheets_data.get('error', 'Unknown error') of the returned dict
ErrorMsg(outcome) ==
    IF outcome.has_error THEN outcome.error ELSE M_UNKNOWN

\* mutant: a commit replaces every entry of the schedule by the staged ones
SessionCommit_WholeSchedule(s) ==
    {e \in cache : e.schedule_def_id # sync[s].schedule_def_id}
        \cup sync[s].session.ins

\* the session's staged changes reach the database with any commit made on
\* db.session, the one inside SyncLog.mark_completed included
SessionCommit(s) == ApplySession(cache, sync[s].session)

\* one pass through the loop body: the call of fetch_schedule_data and what
\* follows up to the sleep, or up to the return into sync_schedule_data
Fetch(s, outcome) ==
    /\ sync[s].pc = "fetch"
    /\ sync[s].attempt < max_retries
    /\ LET f == [sync[s] EXCEPT
                    !.fetches = @ + 1, !.outcome = outcome,
                    !.all_rate_limited =
                        @ /\ outcome.kind = "error" /\ IsRateLimitResult(outcome.error)]
       IN  IF Retries(sync[s].attempt, outcome)
           THEN /\ sync' = [sync EXCEPT ![s] = [f EXCEPT !.pc = "sleep"]]
                /\ UNCHANGED <<ledger, cache>>
           ELSE IF outcome.kind = "ok"
           THEN /\ sync' = [sync EXCEPT ![s] =
                        [f EXCEPT !.pc = "parse", !.sheets_data = outcome.snap]]
                /\ UNCHANGED <<ledger, cache>>
           ELSE /\ ledger' = mark_completed(ledger, sync[s].sync_log, 0, 0,
                                            TRUE, ErrorMsg(outcome), now)
                /\ cache' = SessionCommit(s)
                /\ sync' = [sync EXCEPT ![s] =
                        [f EXCEPT !.pc = "done", !.session = NoSession,
                                  !.result = FailureResult(ErrorMsg(outcome))]]
    /\ UNCHANGED <<now, started, SHEETS_AVAILABLE, request, launched, sweep, probe>>

M_FAILED_AFTER == <<"F", "a", "i", "l", "e", "d", " ", "a", "f", "t", "e", "r">>

\* mutant: the loop sleeps and tries again without counting the attempt
Sleep_NoCount(s) ==
    /\ sync[s].pc = "sleep"
    /\ sync' = [sync EXCEPT ![s] = [@ EXCEPT !.pc = "fetch"]]
    /\ UNCHANGED <<now, ledger, cache, started, SHEETS_AVAILABLE, request, launched,
                   sweep, probe>>

\* lines 136-139 and 150-153: time.sleep(delay); continue.  When the range
\* of the for loop is used up, lines 161-164 return the fall-through error
\* and lines 70-76 of the caller finalize the ticket with it.
Sleep(s) ==
    /\ sync[s].pc = "sleep"
    /\ LET f == [sync[s] EXCEPT
                    !.sleeps = Append(@, BackoffDelay(sync[s].attempt)),
                    !.attempt = @ + 1]
       IN  IF f.attempt < max_retries
           THEN /\ sync' = [sync EXCEPT ![s] = [f EXCEPT !.pc = "fetch"]]
                /\ UNCHANGED <<ledger, cache>>
           ELSE /\ ledger' = mark_completed(ledger, sync[s].sync_log, 0, 0,
                                            TRUE, M_FAILED_AFTER, now)
                /\ cache' = SessionCommit(s)
                /\ sync' = [sync EXCEPT ![s] =
                        [f EXCEPT !.pc = "done", !.session = NoSession,
                                  !.result = FailureResult(M_FAILED_AFTER)]]
    /\ UNCHANGED <<now, started, SHEETS_AVAILABLE, request, launched, sweep, probe>>

(***************************************************************************)
(* _store_schedule_data, lines 177-306, and lines 78-105 of its caller     *)
(***************************************************************************)
\* mutant: a missing header row or identifier column raises
ParseOutcome_DriftRaises(sheets_data) ==
    IF ~sheets_data.sheets_ok THEN "raise"
    ELSE IF ~sheets_data.final_ok THEN "nothing"
    ELSE IF sheets_data.data = <<>> \/ sheets_data.columns = <<>> THEN "raise"
    ELSE IF FindIdentifierColumn(sheets_data.columns) = <<>> THEN "raise"
    ELSE "rows"

\* lines 180-224: "raise" for a payload that is no dict, "nothing" for the
\* three early returns of (0, 0), "rows" when the row loop is entered
ParseOutcome(sheets_data) ==
    IF ~sheets_data.sheets_ok THEN "raise"
    ELSE IF ~sheets_data.final_ok THEN "nothing"
    ELSE IF sheets_data.data = <<>> \/ sheets_data.columns = <<>> THEN "nothing"
    ELSE IF FindIdentifierColumn(sheets_data.columns) = <<>> THEN "nothing"
    ELSE "rows"

\* mutant: the except clause leaves the ticket as it is
HandlerTicket_NoMark(log, id, error_msg, t) == log

\* lines 94-105: the ticket as the except clause leaves it
HandlerTicket(log, id, error_msg, t) ==
    mark_completed(log, id, 0, 0, TRUE, error_msg, t)

\* mutant: there is no except clause, the exception reaches the caller
ExceptClause_Propagates(s, error_msg) ==
    /\ sync' = [sync EXCEPT ![s] = [@ EXCEPT !.pc = "done", !.raised = TRUE,
                                               !.session = NoSession]]
    /\ UNCHANGED <<ledger, cache>>

\* lines 94-105: an exception raised in the try block reaches the except
\* clause; no rollback is made before mark_completed commits
ExceptClause(s, error_msg) ==
    /\ ledger' = HandlerTicket(ledger, sync[s].sync_log, error_msg, now)
    /\ cache' = SessionCommit(s)
    /\ sync' = [sync EXCEPT ![s] =
            [@ EXCEPT !.pc = "done", !.session = NoSession,
                      !.result = FailureResult(error_msg)]]

\* lines 177-224
Parse(s) ==
    /\ sync[s].pc = "parse"
    /\ LET sheets_data == Snapshots[sync[s].sheets_data]
           what == ParseOutcome(sheets_data)
       IN  CASE what = "raise" -> ExceptClause(s, M_ATTR)
             [] what = "nothing" ->
                    /\ sync' = [sync EXCEPT ![s] = [@ EXCEPT !.pc = "finalize"]]
                    /\ UNCHANGED <<ledger, cache>>
             [] what = "rows" ->
                    /\ sync' = [sync EXCEPT ![s] =
                            [@ EXCEPT !.pc = "row", !.row = 1,
                                      !.identifier_column =
                                          FindIdentifierColumn(sheets_data.columns)]]
                    /\ UNCHANGED <<ledger, cache>>
    /\ UNCHANGED <<now, started, SHEETS_AVAILABLE, request, launched, sweep, probe>>

\* mutant: a user counts only when the row yields an entry
StoreRowFrame_UsersWithEntries(f, user_id, entries) ==
    [f EXCEPT !.synced_users = IF entries = <<>> THEN @ ELSE @ \cup {user_id},
              !.session = MergeAll(clear_user_schedule(@, user_id, f.schedule_def_id),
                                   entries),
              !.rows_synced = @ + Len(entries),
              !.row = @ + 1]

\* lines 256-298 for one resolved row: the session and the counters after it
StoreRowFrame(f, user_id, entries) ==
    [f EXCEPT !.synced_users = @ \cup {user_id},
              !.session = MergeAll(clear_user_schedule(@, user_id, f.schedule_def_id),
                                   entries),
              !.rows_synced = @ + Len(entries),
              !.row = @ + 1]

\* mutant: the delete of clear_user_schedule is committed at once
RowCommitted_AfterClear(rows, sess) == ApplySession(rows, sess)

\* mutant: the delete of clear_user_schedule takes effect at once, the
\* merges wait for the commit
RowCommitted_DeleteOnly(rows, sess) ==
    {e \in rows : <<e.user_id, e.schedule_def_id>> \notin sess.cleared}

\* lines 261-301: the committed rows after one pass through the row loop;
\* the loop body stages its delete and its merges and commits nothing, the
\* one commit is line 301 after the loop
RowCommitted(rows, sess) == rows

\* lines 229-298: one pass through the row loop; db_fault: the DELETE of
\* clear_user_schedule raises a database error
StoreRow(s, db_fault) ==
    /\ sync[s].pc = "row"
    /\ LET f == sync[s]
           sheets_data == Snapshots[f.sheets_data]
           row == sheets_data.data[f.row]
           identifier == RowGet(sheets_data.columns, row, f.identifier_column)
           user_id == ResolveUser(identifier, identifier_to_user(f.schedule_def_id))
           next_pc == IF f.row = Len(sheets_data.data) THEN "commit" ELSE "row"
       IN  IF identifier = <<>> \/ user_id = None
           THEN /\ ~db_fault
                /\ sync' = [sync EXCEPT ![s] = [f EXCEPT !.row = @ + 1, !.pc = next_pc]]
                /\ UNCHANGED <<ledger, cache>>
           ELSE IF db_fault
           THEN ExceptClause(s, M_DB)
           ELSE /\ sync' = [sync EXCEPT ![s] =
                        [StoreRowFrame(f, user_id,
                             RowEntries(f.schedule_def_id, user_id, sheets_data.columns,
                                        f.identifier_column, row))
                         EXCEPT !.pc = next_pc]]
                /\ cache' = RowCommitted(cache,
                                 clear_user_schedule(f.session, user_id,
                                                     f.schedule_def_id))
                /\ UNCHANGED ledger
    /\ UNCHANGED <<now, started, SHEETS_AVAILABLE, request, launched, sweep, probe>>

\* lines 300-306: db.session.commit()
Commit(s) ==
    /\ sync[s].pc = "commit"
    /\ cache' = SessionCommit(s)
    /\ sync' = [sync EXCEPT ![s] = [@ EXCEPT !.pc = "finalize", !.session = NoSession]]
    /\ UNCHANGED <<now, ledger, started, SHEETS_AVAILABLE, request, launched, sweep, probe>>

\* mutant: the result reports no rows and no users
SuccessResult_ZeroCounts(log, id, rows_synced, users_synced) ==
    [NoResult EXCEPT !.success = TRUE,
                     !.rows_synced = 0, !.users_synced = 0,
                     !.last_synced_at = log[id].completed_at,
                     !.sync_log_id = id]

\* lines 86-92: the result of a sync that stored its data
SuccessResult(log, id, rows_synced, users_synced) ==
    [NoResult EXCEPT !.success = TRUE,
                     !.rows_synced = rows_synced, !.users_synced = users_synced,
                     !.last_synced_at = log[id].completed_at,
                     !.sync_log_id = id]

\* lines 81-92: mark_completed and the return
Finalize(s) ==
    /\ sync[s].pc = "finalize"
    /\ LET users_synced == Cardinality(sync[s].synced_users)
           log == mark_completed(ledger, sync[s].sync_log, sync[s].rows_synced,
                                 users_synced, FALSE, <<>>, now)
       IN  /\ ledger' = log
           /\ cache' = SessionCommit(s)
           /\ sync' = [sync EXCEPT ![s] =
                   [@ EXCEPT !.pc = "done", !.session = NoSession,
                             !.result = SuccessResult(log, sync[s].sync_log,
                                            sync[s].rows_synced, users_synced)]]
    /\ UNCHANGED <<now, started, SHEETS_AVAILABLE, request, launched, sweep, probe>>

\* the caller has taken the result; the thread is free again
Return(s) ==
    /\ sync[s].pc = "done"
    /\ sync' = [sync EXCEPT ![s] =
            [Idle EXCEPT !.prev =
                [schedule_def_id |-> sync[s].schedule_def_id,
                 force |-> sync[s].force,
                 sheets_data |-> sync[s].sheets_data,
                 success |-> sync[s].result.success,
                 skipped |-> sync[s].result.skipped,
                 rows_synced |-> sync[s].result.rows_synced,
                 users_synced |-> sync[s].result.users_synced]]]
    /\ UNCHANGED <<now, ledger, cache, started, SHEETS_AVAILABLE, request, launched, sweep, probe>>

\* time passes
Tick ==
    /\ \A s \in Threads : sync[s].pc = "idle"
    /\ \E d \in TickSteps : now + d <= MaxTime /\ now' = now + d
    /\ UNCHANGED <<ledger, cache, sync, started, SHEETS_AVAILABLE, request, launched, sweep, probe>>

(***************************************************************************)
(* Callers                                                                 *)
(***************************************************************************)
\* common_routes.sync_google_sheets: the manual sync of one schedule
AdminSync(s, schedule_def_id, force) ==
    /\ sync_schedule_data(s, schedule_def_id, "manual", "admin", force)
    /\ UNCHANGED readvars

\* the sync threads a specification runs
Sequential == {1}

Next ==
    \/ /\ started < MaxInvocations
       /\ \E s \in Sequential, id \in {"T1", "T9"}, force \in BOOLEAN :
              AdminSync(s, id, force)
    \/ \E s \in Sequential, o \in FetchOutcomes : Fetch(s, o)
    \/ \E s \in Sequential : Sleep(s)
    \/ \E s \in Sequential : Parse(s)
    \/ \E s \in Sequential, db_fault \in BOOLEAN : StoreRow(s, db_fault)
    \/ \E s \in Sequential : Commit(s)
    \/ \E s \in Sequential : Finalize(s)
    \/ \E s \in Sequential : Return(s)
    \/ Tick

Spec == Init /\ [][Next]_vars

(***************************************************************************)
(* The freshness check over a longer history: three invocations for one    *)
(* schedule, each fetch either succeeds or fails for good                  *)
(***************************************************************************)
FreshOutcomes ==
    { [kind |-> "ok", snap |-> 2, has_error |-> FALSE, error |-> <<>>],
      [kind |-> "error", snap |-> 0, has_error |-> TRUE, error |-> M_AUTH] }

\* the worker process ends between create_sync_log and mark_completed:
\* what the session staged is lost, the ticket stays pending
Crash(s) ==
    /\ sync[s].pc \notin {"idle", "done"}
    /\ sync' = [sync EXCEPT ![s] = [Idle EXCEPT !.prev = sync[s].prev]]
    /\ UNCHANGED <<now, ledger, cache, started, SHEETS_AVAILABLE, request, launched, sweep, probe>>

NextFresh ==
    \/ /\ started < MaxFreshInvocations
       /\ \E force \in BOOLEAN : AdminSync(1, "T1", force)
    \/ \E o \in FreshOutcomes : Fetch(1, o)
    \/ Parse(1)
    \/ StoreRow(1, FALSE)
    \/ Commit(1)
    \/ Finalize(1)
    \/ Return(1)
    \/ Crash(1)
    \/ Tick

SpecFresh == Init /\ [][NextFresh]_vars

(***************************************************************************)
(* The read path: employee_routes.my_schedule, employee_routes.            *)
(* schedule_data and common_routes.schedule_user_tasks                     *)
(***************************************************************************)
\* the users who read
ReadUsers == {"u1", "u3"}

M_2025_11 == <<"2", "0", "2", "5", "-", "1", "1">>
M_2025_12 == <<"2", "0", "2", "5", "/", "1", "2">>

\* the month argument of a read; <<>> is an absent argument
Months == {<<>>, M_2025_11, M_2025_12}

NoMonth == <<>>

\* employee_routes lines 185-204: the month a "month" argument selects,
\* NoMonth when the argument does not parse and every entry is returned
ParseMonth(month) ==
    LET parts == IF InSeq("-", month) THEN SplitOn(month, "-")
                 ELSE IF InSeq("/", month) THEN SplitOn(month, "/")
                 ELSE <<SubSeq(month, 1, IF Len(month) < 4 THEN Len(month) ELSE 4),
                        SubSeq(month, 5, IF Len(month) < 6 THEN Len(month) ELSE 6)>>
    IN  IF /\ Len(parts) = 2
           /\ IsDigits(parts[1])
           /\ IsDigits(parts[2])
           /\ ToNat(parts[1]) \in 1..9999
           /\ ToNat(parts[2]) \in 1..12
        THEN <<ToNat(parts[1]), ToNat(parts[2])>>
        ELSE NoMonth

\* employee_routes lines 176-206: the cached entries of (user, schedule),
\* of the month when a month is given
CachedQuery(rows, user_id, schedule_def_id, month) ==
    {e \in rows :
        /\ e.user_id = user_id
        /\ e.schedule_def_id = schedule_def_id
        /\ (month # <<>> /\ ParseMonth(month) # NoMonth) =>
               (e.date[1] = ParseMonth(month)[1] /\ e.date[2] = ParseMonth(month)[2])}

\* CachedSchedule.get_user_schedule(user_id, schedule_def_id, month)
get_user_schedule(rows, user_id, schedule_def_id, month) ==
    CachedQuery(rows, user_id, schedule_def_id, month)

\* ScheduleDefinition.query.filter_by(tenantID=..., is_active=True).first():
\* the id of the tenant's active schedule, None when it has none
ActiveScheduleDef(tenant) ==
    LET defs == {d \in ScheduleDefinitions : d.tenantID = tenant /\ d.is_active}
    IN  IF defs = {} THEN None ELSE (CHOOSE d \in defs : TRUE).scheduleDefID

\* what DashboardDataService.get_employee_dashboard_data, the fetch from
\* Google Sheets made in the request's own context, can do
DashboardOutcomes ==
    { [kind |-> "success", error |-> <<>>],
      [kind |-> "failure", error |-> M_AUTH],
      [kind |-> "raise", error |-> M_429],
      [kind |-> "raise", error |-> M_AUTH] }

\* _try_import_google_sheets called at start-up or by another route
\* (schedule_routes line 66); ok: the service module can be loaded
_try_import_google_sheets(ok) ==
    /\ ~SHEETS_AVAILABLE
    /\ SHEETS_AVAILABLE' = ok
    /\ UNCHANGED <<now, ledger, cache, sync, started, request, launched, sweep, probe>>

\* common_routes lines 583-584, employee_routes lines 93-94: completed_at of
\* the ticket get_last_sync returns, NoTime when there is none
LastSyncedAt(log, schedule_def_id) ==
    IF schedule_def_id = None \/ get_last_sync(log, schedule_def_id) = 0
    THEN NoTime
    ELSE log[get_last_sync(log, schedule_def_id)].completed_at

\* the first fields of the record of a read: its arguments, the schedule it
\* reads and what the ledger says of that schedule when the read is made
Read(endpoint, user_id, schedule_def_id, month) ==
    [NoRequest EXCEPT !.n = request.n + 1, !.endpoint = endpoint,
                      !.user_id = user_id, !.sheets_available = SHEETS_AVAILABLE,
                      !.month = month, !.schedule_def_id = schedule_def_id,
                      !.last_synced_at = LastSyncedAt(ledger, schedule_def_id)]

\* employee_routes lines 12-127: the answer of my_schedule
my_schedule_response(user_id, month) ==
    LET schedule_def_id == ActiveScheduleDef(TenantOf(user_id))
        schedules == IF schedule_def_id = None THEN {}
                     ELSE get_user_schedule(cache, user_id, schedule_def_id, month)
    IN  [Read("my_schedule", user_id, schedule_def_id, month) EXCEPT
            !.status = 200, !.source = "database",
            !.hit = schedules # {},
            !.schedule = schedules]

\* employee_routes lines 12-127
my_schedule(user_id, month) ==
    /\ request' = my_schedule_response(user_id, month)
    /\ UNCHANGED <<now, ledger, cache, sync, started, SHEETS_AVAILABLE, launched, sweep, probe>>

\* mutant: an empty answer starts no sync
LaunchesSync_Never(schedules, log, schedule_def_id) == FALSE

\* mutant: every empty answer starts a sync, whatever the ledger holds
LaunchesSync_OnEveryMiss(schedules, log, schedule_def_id) == schedules = {}

\* common_routes lines 586-587: the read starts a background sync
LaunchesSync(schedules, log, schedule_def_id) ==
    /\ schedules = {}
    /\ \/ get_last_sync(log, schedule_def_id) = 0
       \/ log[get_last_sync(log, schedule_def_id)].completed_at = NoTime

\* common_routes lines 531-633
schedule_user_tasks(user_id, month) ==
    LET schedule_def_id == ActiveScheduleDef(TenantOf(user_id))
        r == Read("schedule_user_tasks", user_id, schedule_def_id, month)
    IN  /\ IF month = <<>>
           THEN /\ request' = [r EXCEPT !.status = 200, !.source = "job_logs"]
                /\ UNCHANGED launched
           ELSE IF schedule_def_id = None
           THEN /\ request' = [r EXCEPT !.status = 200, !.source = "database"]
                /\ UNCHANGED launched
           ELSE LET schedules == get_user_schedule(cache, user_id, schedule_def_id, month)
                    launch == LaunchesSync(schedules, ledger, schedule_def_id)
                IN  /\ request' = [r EXCEPT !.status = 200, !.source = "database",
                                            !.hit = schedules # {},
                                            !.schedule = schedules,
                                            !.cache_empty = IF schedules = {}
                                                            THEN "true" ELSE "false",
                                            !.launches = IF launch THEN 1 ELSE 0]
                    /\ launched' = IF launch THEN Append(launched, schedule_def_id)
                                   ELSE launched
        /\ UNCHANGED <<now, ledger, cache, sync, started, SHEETS_AVAILABLE, sweep, probe>>

\* employee_routes line 358: the status of a read whose fetch raised
RaisedStatus(error) ==
    IF IsSubstr(S_429, error) \/ IsSubstr(S_QUOTA, Lower(error)) THEN 429 ELSE 500

\* mutant: a cache miss is answered without a fetch in the request
DirectFetch_Never(hit, sheets_available) == FALSE

\* employee_routes lines 208, 267-300: the read calls DashboardDataService
\* in its own context
DirectFetch(hit, sheets_available) == ~hit /\ sheets_available

\* employee_routes lines 130-366; cache_err: the cache query raises
schedule_data(user_id, arg_schedule_def_id, month, cache_err, dashboard_data) ==
    LET schedule_def_id == IF arg_schedule_def_id # None THEN arg_schedule_def_id
                           ELSE ActiveScheduleDef(TenantOf(user_id))
        cached_schedules == IF schedule_def_id = None \/ cache_err THEN {}
                            ELSE CachedQuery(cache, user_id, schedule_def_id, month)
        r == [Read("schedule_data", user_id, schedule_def_id, month) EXCEPT
                 !.hit = cached_schedules # {}, !.schedule = cached_schedules]
    IN  /\ cache_err => schedule_def_id # None
        /\ IF ~DirectFetch(r.hit, SHEETS_AVAILABLE)
           THEN IF r.hit
                THEN /\ request' = [r EXCEPT !.status = 200,
                                             !.source = "database_cache"]
                     /\ UNCHANGED <<SHEETS_AVAILABLE, launched>>
                ELSE \* lines 267-285: the module is loaded again and the
                     \* reload leaves SHEETS_AVAILABLE False
                     /\ request' = [r EXCEPT !.status = 503, !.source = "none"]
                     /\ SHEETS_AVAILABLE' = FALSE
                     /\ UNCHANGED launched
           ELSE /\ UNCHANGED SHEETS_AVAILABLE
                /\ CASE dashboard_data.kind = "success" ->
                          /\ request' = [r EXCEPT !.status = 200,
                                                  !.source = "google_sheets",
                                                  !.direct_fetches = 1,
                                                  !.launches = 1]
                          /\ launched' = Append(launched, schedule_def_id)
                     [] dashboard_data.kind = "failure" ->
                          /\ request' = [r EXCEPT !.status = 400,
                                                  !.source = "google_sheets_failed",
                                                  !.direct_fetches = 1]
                          /\ UNCHANGED launched
                     [] dashboard_data.kind = "raise" ->
                          /\ request' = [r EXCEPT
                                 !.status = RaisedStatus(dashboard_data.error),
                                 !.source = "google_sheets_error",
                                 !.direct_fetches = 1]
                          /\ UNCHANGED launched
        /\ UNCHANGED <<now, ledger, cache, sync, started, sweep, probe>>

\* the sequence without its i-th element
Without(q, i) == SubSeq(q, 1, i - 1) \o SubSeq(q, i + 1, Len(q))

\* common_routes lines 596-606 and employee_routes lines 307-320: a started
\* thread runs; it calls sync_schedule_data when it has a schedule id
BackgroundSync(s) ==
    /\ sync[s].pc = "idle"
    /\ \E i \in 1..Len(launched) :
          /\ launched' = Without(launched, i)
          /\ IF launched[i] = None
             THEN UNCHANGED <<now, ledger, cache, sync, started>>
             ELSE sync_schedule_data(s, launched[i], "auto", None, FALSE)
    /\ UNCHANGED <<SHEETS_AVAILABLE, request, sweep, probe>>

\* the thread that runs the background syncs, one at a time
Background == 2

NextRead ==
    \/ /\ request.n < MaxReads
       /\ \E u \in ReadUsers, month \in Months : my_schedule(u, month)
    \/ /\ request.n < MaxReads
       /\ \E u \in ReadUsers, month \in Months : schedule_user_tasks(u, month)
    \/ /\ request.n < MaxReads
       /\ \E u \in ReadUsers, id \in {None, "T1"}, month \in Months,
             cache_err \in BOOLEAN, d \in DashboardOutcomes :
                schedule_data(u, id, month, cache_err, d)
    \/ \E ok \in BOOLEAN : _try_import_google_sheets(ok)
    \/ BackgroundSync(Background)
    \/ \E o \in FreshOutcomes : Fetch(Background, o)
    \/ Parse(Background)
    \/ StoreRow(Background, FALSE)
    \/ Commit(Background)
    \/ Finalize(Background)
    \/ Return(Background)
    \/ Tick

SpecRead == Init /\ [][NextRead]_vars

(***************************************************************************)
(* Resolution of an identifier (lines 200-211 and 238-254) over every      *)
(* sequence of at most MaxLinks mappings of distinct users                 *)
(***************************************************************************)
I_AMY_E0 == <<"A", "m", "y", "/", "E", "0">>
I_E04_PADDED == <<" ", "E", "0", "4", " ">>

\* the EmployeeMapping rows a schedule may have
Links ==
    [schedule_def_id : {"T1"}, userID : {"u1", "u2"},
     sheets_identifier : {I_E04, I_E0, I_E041},
     sheets_name_id : {<<>>, I_AMY_E04, I_AMY_E0}, is_active : {TRUE}]

LinkSeqs ==
    {<<>>} \cup {<<a>> : a \in Links}
        \cup {q \in {<<a, b>> : a \in Links, b \in Links} : q[1].userID # q[2].userID}

\* the identifier cells a row may hold
RawIdentifiers == {I_E04, I_E0, I_AMY, I_AMY_E04, I_E041, I_X9, I_E04_PADDED}

InitResolve ==
    /\ now = 0
    /\ ledger = <<>>
    /\ cache = {}
    /\ sync = [s \in Threads |-> Idle]
    /\ started = 0
    /\ SHEETS_AVAILABLE = FALSE
    /\ request = NoRequest
    /\ launched = <<>>
    /\ sweep = NoSweep
    /\ probe \in [fn : {"resolve"}, links : {q \in LinkSeqs : Len(q) <= MaxLinks},
                   identifier : RawIdentifiers, done : {FALSE}, user_id : {None}]

\* lines 200-211 and 238-254 applied to the mappings and the identifier
Resolve ==
    /\ probe.fn = "resolve"
    /\ ~probe.done
    /\ probe' = [probe EXCEPT
                     !.done = TRUE,
                     !.user_id = ResolveUser(probe.identifier,
                                     BuildIdentifierToUser(<<>>, probe.links))]
    /\ UNCHANGED <<now, ledger, cache, sync, started, SHEETS_AVAILABLE, request,
                   launched, sweep>>

NextResolve == Resolve

SpecResolve == InitResolve /\ [][NextResolve]_vars

(***************************************************************************)
(* The scheduled sweep: tasks/google_sync.py sync_google_sheets_daily, run *)
(* by the beat schedule of tasks/celery_app.py                             *)
(***************************************************************************)
\* the thread of the worker that runs the sweep
Worker == 1

\* line 26: ScheduleDefinition.query.filter_by(is_active=True).all()
ActiveIds == {d.scheduleDefID : d \in {x \in ScheduleDefinitions : x.is_active}}

\* the orders in which the query may return the active schedules
ActiveOrders ==
    {q \in [1..Cardinality(ActiveIds) -> ActiveIds] :
        \A a, b \in 1..Cardinality(ActiveIds) : a # b => q[a] # q[b]}

\* lines 59-64: the entry of results for a schedule whose sync raised
RaisedEntry(schedule_def_id) ==
    [schedule_def_id |-> schedule_def_id, success |-> FALSE, raised |-> TRUE]

\* lines 51-55: the entry of results for a schedule whose sync returned
ReturnedEntry(schedule_def_id, success) ==
    [schedule_def_id |-> schedule_def_id, success |-> success, raised |-> FALSE]

\* lines 21-36 and 76-80: the beat schedule starts the task; with no active
\* schedule the task returns at once; db_fault: the query of line 26
\* raises, and the task logs the exception and raises it again
SweepStart(db_fault) ==
    /\ sweep.pc = "idle"
    /\ sweep.runs < MaxSweeps
    /\ sync[Worker].pc = "idle"
    /\ IF db_fault
       THEN sweep' = [NoSweep EXCEPT !.raised = TRUE, !.runs = sweep.runs + 1]
       ELSE \E schedules \in ActiveOrders :
               sweep' = [NoSweep EXCEPT
                            !.pc = IF schedules = <<>> THEN "idle" ELSE "loop",
                            !.todo = schedules,
                            !.runs = IF schedules = <<>> THEN sweep.runs + 1
                                     ELSE sweep.runs]
    /\ UNCHANGED <<now, ledger, cache, sync, started, SHEETS_AVAILABLE, request,
                   launched, probe>>

\* mutant: the sweep leaves the freshness check to sync_schedule_data
SweepShouldSync_Always(log, schedule_def_id, t) == TRUE

\* line 40: the check the sweep makes before it calls the sync
SweepShouldSync(log, schedule_def_id, t) ==
    should_sync(log, schedule_def_id, min_minutes, t)

\* mutant: an exception raised for one schedule ends the loop
AfterRaise_Abort(todo) == <<>>

\* lines 57-64: the handler of the loop body goes on with the next schedule
AfterRaise(todo) == Tail(todo)

\* lines 37-49, 57-64: the loop body for the next schedule up to the call
\* of the sync; db_fault: the freshness query raises
SweepCheck(db_fault) ==
    /\ sweep.pc = "loop"
    /\ sweep.todo # <<>>
    /\ sync[Worker].pc = "idle"
    /\ LET schedule_def_id == Head(sweep.todo)
       IN  IF db_fault
           THEN /\ sweep' = [sweep EXCEPT
                                !.results = Append(@, RaisedEntry(schedule_def_id)),
                                !.todo = AfterRaise(@)]
                /\ UNCHANGED <<now, ledger, cache, sync, started>>
           ELSE IF ~SweepShouldSync(ledger, schedule_def_id, now)
           THEN /\ sweep' = [sweep EXCEPT !.todo = Tail(@),
                                            !.skipped = @ \cup {schedule_def_id}]
                /\ UNCHANGED <<now, ledger, cache, sync, started>>
           ELSE /\ sweep' = [sweep EXCEPT !.pc = "call"]
                /\ sync_schedule_data(Worker, schedule_def_id, "scheduled", None, FALSE)
    /\ UNCHANGED <<SHEETS_AVAILABLE, request, launched, probe>>

\* lines 51-55: the sync returned and its result is appended
SweepCollect ==
    /\ sweep.pc = "call"
    /\ sync[Worker].pc = "idle"
    /\ sweep' = [sweep EXCEPT
                    !.results = Append(@, ReturnedEntry(Head(sweep.todo),
                                                        sync[Worker].prev.success)),
                    !.todo = Tail(@),
                    !.pc = "loop"]
    /\ UNCHANGED <<now, ledger, cache, sync, started, SHEETS_AVAILABLE, request,
                   launched, probe>>

\* lines 66-74: the loop is over and the task returns its summary
SweepFinish ==
    /\ sweep.pc = "loop"
    /\ sweep.todo = <<>>
    /\ sweep' = [sweep EXCEPT !.pc = "idle", !.runs = @ + 1]
    /\ UNCHANGED <<now, ledger, cache, sync, started, SHEETS_AVAILABLE, request,
                   launched, probe>>

\* time passes while no sync call is in progress
SweepTick ==
    /\ sweep.pc # "call"
    /\ Tick

NextSweep ==
    \/ \E db_fault \in BOOLEAN : SweepStart(db_fault)
    \/ \E db_fault \in BOOLEAN : SweepCheck(db_fault)
    \/ \E o \in FreshOutcomes : Fetch(Worker, o)
    \/ Parse(Worker)
    \/ StoreRow(Worker, FALSE)
    \/ Commit(Worker)
    \/ Finalize(Worker)
    \/ Return(Worker)
    \/ SweepCollect
    \/ SweepFinish
    \/ SweepTick

SpecSweep == Init /\ [][NextSweep]_vars

(***************************************************************************)
(* Concurrent syncs: the threads started by two reads of schedule_user_tasks *)
(* that both missed the cache run sync_schedule_data side by side          *)
(***************************************************************************)
NextRace ==
    \/ /\ request.n < MaxReads
       /\ \E u \in {"u1"}, month \in {M_2025_11, M_2025_12} :
             schedule_user_tasks(u, month)
    \/ \E s \in Threads : BackgroundSync(s)
    \/ \E s \in Threads, o \in FreshOutcomes : Fetch(s, o)
    \/ \E s \in Threads : Parse(s)
    \/ \E s \in Threads : StoreRow(s, FALSE)
    \/ \E s \in Threads : Commit(s)
    \/ \E s \in Threads : Finalize(s)
    \/ \E s \in Threads : Return(s)
    \/ Tick

SpecRace == Init /\ [][NextRace]_vars

(***************************************************************************)
(* Two forced syncs of one schedule side by side, each fetching one of two *)
(* snapshots, with time passing between the commit of line 301 and the     *)
(* mark_completed of line 82                                               *)
(***************************************************************************)
OverlapOutcomes ==
    { [kind |-> "ok", snap |-> 1, has_error |-> FALSE, error |-> <<>>],
      [kind |-> "ok", snap |-> 2, has_error |-> FALSE, error |-> <<>>] }

\* time passes while a sync has committed its rows and not yet finalized
\* its ticket
Elapse ==
    /\ \E s \in Threads : sync[s].pc = "finalize"
    /\ now < MaxElapse
    /\ now' = now + 1
    /\ UNCHANGED <<ledger, cache, sync, started, SHEETS_AVAILABLE, request, launched,
                   sweep, probe>>

NextOverlap ==
    \/ /\ started < MaxInvocations
       /\ \E s \in Threads : AdminSync(s, "T1", TRUE)
    \/ \E s \in Threads, o \in OverlapOutcomes : Fetch(s, o)
    \/ \E s \in Threads : Parse(s)
    \/ \E s \in Threads : StoreRow(s, FALSE)
    \/ \E s \in Threads : Commit(s)
    \/ \E s \in Threads : Finalize(s)
    \/ \E s \in Threads : Return(s)
    \/ Elapse

SpecOverlap == Init /\ [][NextOverlap]_vars

(***************************************************************************)
(* Reads of my_schedule while a sync of the same schedule runs on another  *)
(* thread                                                                  *)
(***************************************************************************)
\* two snapshots that give user u1 different entries, and a failing fetch
MidSyncOutcomes ==
    { [kind |-> "ok", snap |-> 1, has_error |-> FALSE, error |-> <<>>],
      [kind |-> "ok", snap |-> 2, has_error |-> FALSE, error |-> <<>>],
      [kind |-> "error", snap |-> 0, has_error |-> TRUE, error |-> M_AUTH] }

\* my_schedule answered while thread 2 is where sync_pc says
my_schedule_during(user_id, month) ==
    /\ request' = [my_schedule_response(user_id, month) EXCEPT !.sync_pc = sync[2].pc]
    /\ UNCHANGED <<now, ledger, cache, sync, started, SHEETS_AVAILABLE, launched, sweep, probe>>

NextMidSync ==
    \/ /\ request.n < MaxReads
       /\ \E u \in {"u1", "u2"}, month \in {<<>>, M_2025_11} : my_schedule_during(u, month)
    \/ /\ started < MaxInvocations
       /\ AdminSync(2, "T1", TRUE)
    \/ \E o \in MidSyncOutcomes : Fetch(2, o)
    \/ Parse(2)
    \/ \E db_fault \in BOOLEAN : StoreRow(2, db_fault)
    \/ Commit(2)
    \/ Finalize(2)
    \/ Return(2)

SpecMidSync == Init /\ [][NextMidSync]_vars

(***************************************************************************)
(* Progress of an invocation: the thread that runs sync_schedule_data goes *)
(* on with its next statement, and every call of fetch_schedule_data       *)
(* returns or raises                                                       *)
(***************************************************************************)
\* the statements of an invocation outside the row loop
Step(s) ==
    \/ \E o \in FetchOutcomes : Fetch(s, o)
    \/ Sleep(s)
    \/ Parse(s)
    \/ Commit(s)
    \/ Finalize(s)

\* one pass through the row loop
RowStep(s) == \E db_fault \in BOOLEAN : StoreRow(s, db_fault)

\* weak fairness of RowStep, written out: RowStep is enabled exactly when
\* the thread is in the row loop, and every RowStep changes sync
RowLoopGoesOn(s) ==
    \/ []<>(sync[s].pc # "row")
    \/ []<><<RowStep(s)>>_vars

NextLive ==
    \/ /\ started < MaxLiveInvocations
       /\ \E id \in {"T1", "T9"}, force \in BOOLEAN : AdminSync(1, id, force)
    \/ Step(1)
    \/ RowStep(1)
    \/ Return(1)

SpecLive == Init /\ [][NextLive]_vars /\ WF_vars(Step(1)) /\ RowLoopGoesOn(1)

(***************************************************************************)
(* The cell pipeline alone: lines 272-283 applied to one cell text         *)
(***************************************************************************)
CellChars == {"D", "d", "E", "e", "N", "n", "x", " "}

\* cell texts: every text of at most MaxCellLen of the characters above, and
\* the words and descriptions the classification names
CellTexts ==
    UNION {[1..n -> CellChars] : n \in 0..MaxCellLen}
        \cup {S_OFF, <<"o", "f", "f">>, S_REST, S_LEAVE, S_NULL, C_NULL,
              S_EVENING, S_NIGHT, S_DAY, S_SWING, S_GRAVE, S_WHITE,
              <<"n", "i", "g", "h", "t">>,
              <<"E", " ", "D", "E", "S", "K">>,
              <<"N", " ", "U6AC3", "U53F0">>,
              <<"U4F11", " ", "U4EBA", "U529B">>,
              <<"D", "1">>, <<"E", "D">>, <<"O", "N">>}

InitClassify ==
    /\ now = 0
    /\ ledger = <<>>
    /\ cache = {}
    /\ sync = [s \in Threads |-> Idle]
    /\ started = 0
    /\ SHEETS_AVAILABLE = FALSE
    /\ request = NoRequest
    /\ launched = <<>>
    /\ sweep = NoSweep
    /\ probe \in [fn : {"classify"}, cell : CellTexts, done : {FALSE},
                   stored : {FALSE}, shift_type : {None}, time_range : {None}]

\* lines 272-283: the cell is stripped, an empty or NULL cell is skipped,
\* any other is classified and given its time range
Classify ==
    /\ probe.fn = "classify"
    /\ ~probe.done
    /\ LET shift_value == Strip(probe.cell)
       IN  IF shift_value = <<>> \/ Upper(shift_value) = S_NULL
           THEN probe' = [probe EXCEPT !.done = TRUE]
           ELSE probe' = [probe EXCEPT
                             !.done = TRUE, !.stored = TRUE,
                             !.shift_type = _normalize_shift_type(shift_value),
                             !.time_range =
                                 _get_time_range(_normalize_shift_type(shift_value))]
    /\ UNCHANGED <<now, ledger, cache, sync, started, SHEETS_AVAILABLE, request,
                   launched, sweep>>

NextClassify == Classify

SpecClassify == InitClassify /\ [][NextClassify]_vars

(***************************************************************************)
(* The fetcher that was never loaded: line 14 of the sync service binds    *)
(* fetch_schedule_data when the module is imported, so a process whose     *)
(* import of the Google Sheets service failed holds None under that name.  *)
(* Thread 1 runs in a process that holds the fetcher, thread 2 in one      *)
(* that holds None.                                                        *)
(***************************************************************************)
Unloaded == {2}

\* str(e) of the TypeError that calling None raises
M_NOT_CALLABLE ==
    <<"'", "N", "o", "n", "e", "T", "y", "p", "e", "'", " ", "o", "b", "j",
      "e", "c", "t", " ", "i", "s", " ", "n", "o", "t", " ", "c", "a", "l",
      "l", "a", "b", "l", "e">>

LoadedOutcomes ==
    { [kind |-> "ok", snap |-> 1, has_error |-> FALSE, error |-> <<>>],
      [kind |-> "raise", snap |-> 0, has_error |-> TRUE, error |-> M_429],
      [kind |-> "error", snap |-> 0, has_error |-> TRUE, error |-> M_AUTH] }

\* lines 123-127: what the call of fetch_schedule_data can yield in the
\* process of thread s
CallFetcher(s) ==
    IF s \in Unloaded
    THEN { [kind |-> "raise", snap |-> 0, has_error |-> TRUE,
            error |-> M_NOT_CALLABLE] }
    ELSE LoadedOutcomes

NextUnloaded ==
    \/ /\ started < MaxInvocations
       /\ \E s \in Threads, force \in BOOLEAN : AdminSync(s, "T1", force)
    \/ \E s \in Threads : \E o \in CallFetcher(s) : Fetch(s, o)
    \/ \E s \in Threads : Sleep(s)
    \/ \E s \in Threads : Parse(s)
    \/ \E s \in Threads : StoreRow(s, FALSE)
    \/ \E s \in Threads : Commit(s)
    \/ \E s \in Threads : Finalize(s)
    \/ \E s \in Threads : Return(s)
    \/ Tick

SpecUnloaded == Init /\ [][NextUnloaded]_vars

(***************************************************************************)
(* _fetch_with_retry on its own, lines 107-164, for any max_retries: the   *)
(* loop is run from its head with max_retries drawn from 0..MaxRetriesBound *)
(* and every sequence of outcomes of the fetch call                        *)
(***************************************************************************)
RetryOutcomes ==
    [kind : {"ok"}, snap : {1}, has_error : {FALSE}, error : {<<>>}]
    \cup [kind : {"error"}, snap : {0}, has_error : {TRUE}, error : Messages]
    \cup [kind : {"error"}, snap : {0}, has_error : {FALSE}, error : {<<>>}]
    \cup [kind : {"raise"}, snap : {0}, has_error : {TRUE}, error : Messages]

\* lines 161-164: the result returned when the loop runs out
FallThrough ==
    [kind |-> "error", snap |-> 0, has_error |-> TRUE, error |-> M_FAILED_AFTER]

\* mutant: the last attempt is retried like the others
RetriesWithin_LastToo(attempt, outcome, retries) ==
    CASE outcome.kind = "ok" -> FALSE
      [] outcome.kind = "error" ->
            IsRateLimitResult(outcome.error) /\ attempt < retries
      [] outcome.kind = "raise" ->
            attempt < retries /\ IsRateLimitException(outcome.error)

\* lines 129-159 with max_retries as a parameter: after the fetch call of
\* this attempt, sleep and try again?
RetriesWithin(attempt, outcome, retries) ==
    CASE outcome.kind = "ok" -> FALSE
      [] outcome.kind = "error" ->
            IsRateLimitResult(outcome.error) /\ attempt < retries - 1
      [] outcome.kind = "raise" ->
            attempt < retries - 1 /\ IsRateLimitException(outcome.error)

InitRetry ==
    /\ now = 0
    /\ ledger = <<>>
    /\ cache = {}
    /\ sync = [s \in Threads |-> Idle]
    /\ started = 0
    /\ SHEETS_AVAILABLE = FALSE
    /\ request = NoRequest
    /\ launched = <<>>
    /\ sweep = NoSweep
    /\ probe \in [fn : {"_fetch_with_retry"}, pc : {"loop"},
                   max_retries : 0..MaxRetriesBound, attempt : {0},
                   outcomes : {<<>>}, sleeps : {<<>>},
                   returned : {NoOutcome}, fell_through : {FALSE}]

\* lines 120-159: one pass of the loop body up to the sleep or the return
RetryCall(outcome) ==
    /\ probe.fn = "_fetch_with_retry"
    /\ probe.pc = "loop"
    /\ probe.attempt < probe.max_retries
    /\ LET f == [probe EXCEPT !.outcomes = Append(@, outcome)]
       IN  IF RetriesWithin(probe.attempt, outcome, probe.max_retries)
           THEN probe' = [f EXCEPT !.pc = "sleep"]
           ELSE probe' = [f EXCEPT !.pc = "returned", !.returned = outcome]
    /\ UNCHANGED <<now, ledger, cache, sync, started, SHEETS_AVAILABLE, request,
                   launched, sweep>>

\* lines 136-139 and 150-153: time.sleep(delay); continue
RetrySleep ==
    /\ probe.fn = "_fetch_with_retry"
    /\ probe.pc = "sleep"
    /\ probe' = [probe EXCEPT !.sleeps = Append(@, BackoffDelay(probe.attempt)),
                              !.attempt = @ + 1, !.pc = "loop"]
    /\ UNCHANGED <<now, ledger, cache, sync, started, SHEETS_AVAILABLE, request,
                   launched, sweep>>

\* lines 161-164: range(max_retries) is used up
RetryFallThrough ==
    /\ probe.fn = "_fetch_with_retry"
    /\ probe.pc = "loop"
    /\ probe.attempt >= probe.max_retries
    /\ probe' = [probe EXCEPT !.pc = "returned", !.returned = FallThrough,
                              !.fell_through = TRUE]
    /\ UNCHANGED <<now, ledger, cache, sync, started, SHEETS_AVAILABLE, request,
                   launched, sweep>>

NextRetry ==
    \/ \E o \in RetryOutcomes : RetryCall(o)
    \/ RetrySleep
    \/ RetryFallThrough

SpecRetry == InitRetry /\ [][NextRetry]_vars

(***************************************************************************)
(* Properties                                                              *)
(***************************************************************************)
Ticket(s) == ledger[sync[s].sync_log]

Done(s) == sync[s].pc = "done"

\* the tickets of a schedule that completed with success less than
\* min_minutes before time t, among the first n tickets
FreshSuccesses(schedule_def_id, n, t) ==
    {i \in 1..n : /\ ledger[i].schedule_def_id = schedule_def_id
                  /\ ledger[i].status = "success"
                  /\ ledger[i].completed_at # NoTime
                  /\ t - ledger[i].completed_at < min_minutes}

\* the completion times of the completed tickets of a schedule
CompletionTimes(schedule_def_id, statuses) ==
    {ledger[i].completed_at : i \in
        {j \in 1..Len(ledger) : /\ ledger[j].schedule_def_id = schedule_def_id
                                /\ ledger[j].completed_at # NoTime
                                /\ ledger[j].status \in statuses}}

Latest(times) == CHOOSE t \in times : \A u \in times : u <= t

\* a non-forced invocation for an existing schedule that found a success
\* less than min_minutes old
Debounced(s) ==
    /\ Done(s)
    /\ ~sync[s].force
    /\ GetScheduleDef(sync[s].schedule_def_id) # {}
    /\ FreshSuccesses(sync[s].schedule_def_id, sync[s].ledger_at_start,
                      sync[s].invoked_at) # {}

\* skipped, no fetch call, no new ticket
SkippedWithoutWork(s) ==
    /\ sync[s].result.success
    /\ sync[s].result.skipped
    /\ sync[s].fetches = 0
    /\ sync[s].sync_log = 0
    /\ Len(ledger) = sync[s].ledger_at_start

\* C1 (as amended): a non-forced sync invoked less than 10 minutes after a
\* successful sync of the same schedule completed returns success and
\* skipped, makes no fetch call and creates no ticket; its last_synced_at
\* is the completion time of the most recently completed ticket of the
\* schedule, whatever that ticket's status.
C1_Debounce ==
    \A s \in Threads :
        Debounced(s) =>
            /\ SkippedWithoutWork(s)
            /\ sync[s].result.last_synced_at =
                   Latest(CompletionTimes(sync[s].schedule_def_id,
                                          {"success", "failed"}))

\* C1 witness: a sync is skipped five minutes after the success it rests on
C1_Witness ==
    \E s \in Threads :
        /\ Debounced(s)
        /\ sync[s].result.skipped
        /\ sync[s].invoked_at > 0
        /\ sync[s].result.last_synced_at = 0

\* C1 as stated: the skipped sync reports t0, the completion time of the
\* (latest) successful sync.
C1_Original ==
    \A s \in Threads :
        Debounced(s) =>
            /\ SkippedWithoutWork(s)
            /\ sync[s].result.last_synced_at =
                   Latest(CompletionTimes(sync[s].schedule_def_id, {"success"}))

\* C2: when every fetch attempt of an invocation returned a rate-limit
\* error, the invocation has made exactly max_retries = 3 fetch calls and
\* two sleeps of initial_delay * 2^0 and initial_delay * 2^1 in that order;
\* it returns success = false and its ticket is failed with 0 rows, 0 users
\* and the error of the last attempt.
C2_BoundedRetry ==
    \A s \in Threads :
        (Done(s) /\ sync[s].fetches >= 1 /\ sync[s].all_rate_limited) =>
            /\ sync[s].fetches = 3
            /\ sync[s].sleeps = <<initial_delay, initial_delay * 2>>
            /\ ~sync[s].result.success
            /\ Ticket(s).status = "failed"
            /\ Ticket(s).rows_synced = 0
            /\ Ticket(s).users_synced = 0
            /\ Ticket(s).error_message = sync[s].outcome.error
            /\ sync[s].result.error = sync[s].outcome.error

\* C2 witness: three rate-limited attempts, the last one a quota error
C2_Witness ==
    \E s \in Threads :
        /\ Done(s)
        /\ sync[s].all_rate_limited
        /\ sync[s].fetches = 3
        /\ sync[s].sleeps = <<2, 4>>
        /\ Ticket(s).status = "failed"
        /\ Ticket(s).error_message = M_QUOTA

\* the committed entries of (user, schedule)
CacheOf(rows, user_id, schedule_def_id) ==
    {e \in rows : e.user_id = user_id /\ e.schedule_def_id = schedule_def_id}

\* the rows of a snapshot that resolve to the user
RowsOf(schedule_def_id, user_id, sheets_data) ==
    LET identifier_column == FindIdentifierColumn(sheets_data.columns)
    IN  SelectSeq(sheets_data.data,
            LAMBDA row :
                LET identifier == RowGet(sheets_data.columns, row, identifier_column)
                IN  /\ identifier # <<>>
                    /\ ResolveUser(identifier, identifier_to_user(schedule_def_id))
                           = user_id)

RECURSIVE EntriesOfRows(_, _, _, _)
EntriesOfRows(schedule_def_id, user_id, sheets_data, rows) ==
    IF rows = <<>> THEN <<>>
    ELSE RowEntries(schedule_def_id, user_id, sheets_data.columns,
                    FindIdentifierColumn(sheets_data.columns), Head(rows))
             \o EntriesOfRows(schedule_def_id, user_id, sheets_data, Tail(rows))

\* the entries a snapshot holds for the user: one per date, over all the
\* rows that resolve to the user, a later cell of a date replacing an earlier
Derived(schedule_def_id, user_id, sheets_data) ==
    MergeAll(NoSession,
             EntriesOfRows(schedule_def_id, user_id, sheets_data,
                           RowsOf(schedule_def_id, user_id, sheets_data))).ins

\* a sync that went through the row loop and returned success
Stored(s) ==
    /\ Done(s)
    /\ sync[s].result.success
    /\ sync[s].sheets_data # 0
    /\ ParseOutcome(Snapshots[sync[s].sheets_data]) = "rows"

\* C3 as stated: after a successful sync, for every user some row of the
\* snapshot resolves to, the cache entries of (user, schedule) are exactly
\* the entries derived from the snapshot for the user, and a date cached
\* before and absent from the snapshot is absent afterwards.
C3_FullReplacement ==
    \A s \in Threads : \A u \in Users :
        (Stored(s) /\ RowsOf(sync[s].schedule_def_id, u,
                             Snapshots[sync[s].sheets_data]) # <<>>) =>
            LET T == sync[s].schedule_def_id
                derived == Derived(T, u, Snapshots[sync[s].sheets_data])
            IN  /\ CacheOf(cache, u, T) = derived
                /\ \A e \in CacheOf(sync[s].cache_at_start, u, T) :
                       (\A d \in derived : d.date # e.date) =>
                           \A c \in CacheOf(cache, u, T) : c.date # e.date

Storing(s) == sync[s].pc \in {"row", "commit"}

C6_FinalizedOnce ==
    /\ [](/\ \A i \in 1..Len(ledger) :
                /\ ledger[i].marks <= 1
                /\ (ledger[i].marks = 1) <=> (ledger[i].completed_at # NoTime)
                /\ (ledger[i].marks = 1) <=> (ledger[i].status # "pending")
                /\ ledger[i].marks = 0 =>
                       \E s \in Threads : /\ sync[s].sync_log = i
                                          /\ sync[s].pc \notin {"idle", "done"}
          /\ \A s \in Threads :
                (Done(s) /\ sync[s].sync_log # 0) => Ticket(s).marks = 1)
    /\ [][\A i \in 1..Len(ledger) :
            ledger[i].completed_at # NoTime =>
                (Len(ledger') >= i /\ ledger'[i] = ledger[i])]_vars

\* C6 witness: a ticket finalized by the except clause, and an earlier
\* ticket finalized with success
C6_Witness ==
    \E s \in Threads :
        /\ Done(s)
        /\ sync[s].sync_log = 2
        /\ Ticket(s).marks = 1
        /\ Ticket(s).error_message = M_DB
        /\ ledger[1].status = "success"

\* the invocation met an error in its fetch or in reading the payload
Faulted(s) ==
    \/ sync[s].outcome.kind \in {"error", "raise"}
    \/ /\ sync[s].sheets_data # 0
       /\ ParseOutcome(Snapshots[sync[s].sheets_data]) = "raise"

\* C7: an invocation that opened a ticket ends by returning a result, no
\* exception reaches its caller; an invocation that met an error returns
\* success = false; a result of success = false carries an error
\* message and the ticket is failed with 0 rows, 0 users and that message.
C7_NoExceptionEscapes ==
    \A s \in Threads :
        (Done(s) /\ sync[s].sync_log # 0) =>
            /\ ~sync[s].raised
            /\ Faulted(s) => ~sync[s].result.success
            /\ ~sync[s].result.success =>
                   /\ sync[s].result.has_error
                   /\ Ticket(s).status = "failed"
                   /\ Ticket(s).rows_synced = 0
                   /\ Ticket(s).users_synced = 0
                   /\ Ticket(s).has_error
                   /\ Ticket(s).error_message = sync[s].result.error

\* C7 witness: an error raised in the row loop after a row was staged
C7_Witness ==
    \E s \in Threads :
        /\ Done(s)
        /\ sync[s].row = 2
        /\ sync[s].result.error = M_DB
        /\ Ticket(s).status = "failed"

\* the fetched snapshot has no header row, or no identifier column
SchemaDrift(s) ==
    /\ Done(s)
    /\ sync[s].sheets_data # 0
    /\ LET sheets_data == Snapshots[sync[s].sheets_data]
       IN  /\ sheets_data.sheets_ok
           /\ sheets_data.final_ok
           /\ \/ sheets_data.columns = <<>>
              \/ FindIdentifierColumn(sheets_data.columns) = <<>>

NotRateLimited(s) ==
    /\ sync[s].outcome.kind \in {"error", "raise"}
    /\ ~IsRateLimitResult(sync[s].outcome.error)

\* C9: a fetch attempt that fails with an error outside the rate-limited
\* class ends the invocation: no sleep and no fetch call follows it (one
\* fetch call in all when it is the first attempt), and the invocation
\* fails with that error.
C9_NoRetryOnOtherErrors ==
    \A s \in Threads :
        NotRateLimited(s) =>
            /\ Done(s)
            /\ sync[s].fetches = sync[s].attempt + 1
            /\ Len(sync[s].sleeps) = sync[s].attempt
            /\ (sync[s].attempt = 0 => sync[s].fetches = 1 /\ sync[s].sleeps = <<>>)
            /\ ~sync[s].result.success
            /\ sync[s].result.error = ErrorMsg(sync[s].outcome)
            /\ Ticket(s).status = "failed"
            /\ Ticket(s).error_message = ErrorMsg(sync[s].outcome)

\* C9 witness: the first attempt fails with an authorization error
C9_Witness ==
    \E s \in Threads :
        /\ NotRateLimited(s)
        /\ sync[s].outcome.error = M_AUTH
        /\ sync[s].fetches = 1
        /\ sync[s].sleeps = <<>>
        /\ Ticket(s).status = "failed"

SameSnapshotTwice(s) ==
    /\ Done(s)
    /\ sync[s].force
    /\ sync[s].prev.force
    /\ sync[s].prev.schedule_def_id = sync[s].schedule_def_id
    /\ sync[s].sheets_data # 0
    /\ sync[s].prev.sheets_data = sync[s].sheets_data
    /\ sync[s].prev.success
    /\ sync[s].result.success

\* C11: of two consecutive forced syncs of a schedule against the same
\* snapshot, the second leaves the cache as the first left it, and both
\* return the same rows_synced and the same users_synced.
C11_Idempotence ==
    \A s \in Threads :
        SameSnapshotTwice(s) =>
            /\ cache = sync[s].cache_at_start
            /\ sync[s].result.rows_synced = sync[s].prev.rows_synced
            /\ sync[s].result.users_synced = sync[s].prev.users_synced

\* C11 witness: the same snapshot with two users stored twice
C11_Witness ==
    \E s \in Threads :
        /\ SameSnapshotTwice(s)
        /\ sync[s].sheets_data = 1
        /\ sync[s].result.users_synced = 2
        /\ sync[s].result.rows_synced = 3
        /\ cache # {}

\* a non-forced invocation for an existing schedule, past its freshness check
Unforced(s) ==
    /\ sync[s].pc # "idle"
    /\ ~sync[s].force
    /\ GetScheduleDef(sync[s].schedule_def_id) # {}

\* the tickets of the schedule among the first n that are pending or failed
Unsuccessful(schedule_def_id, n) ==
    {i \in 1..n : /\ ledger[i].schedule_def_id = schedule_def_id
                  /\ ledger[i].status \in {"pending", "failed"}}

\* C12: a non-forced sync of a schedule is skipped exactly when a ticket of
\* the schedule completed with success less than 10 minutes before the
\* invocation; pending and failed tickets never cause a skip, and without a
\* completed ticket the sync proceeds (it opens a ticket).
C12_FreshnessLooksAtSuccess ==
    \A s \in Threads :
        Unforced(s) =>
            LET fresh == FreshSuccesses(sync[s].schedule_def_id,
                                        sync[s].ledger_at_start, sync[s].invoked_at)
            IN  /\ (fresh # {}) <=> (sync[s].sync_log = 0)
                /\ (fresh # {}) <=> (Done(s) /\ sync[s].result.skipped)
                /\ fresh = {} => sync[s].sync_log = sync[s].ledger_at_start + 1

\* C12 witness: a non-forced sync proceeds although the schedule has a
\* pending ticket and a ticket that failed at the minute of the invocation
C12_Witness ==
    \E s \in Threads :
        /\ Unforced(s)
        /\ sync[s].sync_log = 3
        /\ ledger[1].status = "pending"
        /\ ledger[2].status = "failed"
        /\ ledger[2].completed_at = sync[s].invoked_at

\* lines 203-211: the strings under which a mapping is stored
LinkKeys(m) ==
    {m.sheets_identifier}
        \cup (IF m.sheets_name_id = <<>> THEN {} ELSE {m.sheets_name_id})
        \cup (IF InSeq("/", m.sheets_name_id)
              THEN {Strip(SplitOn(m.sheets_name_id, "/")[i]) :
                       i \in 1..Len(SplitOn(m.sheets_name_id, "/"))} \ {<<>>}
              ELSE {})

\* the mappings, by position, that store the identifier
Holders(links, identifier) ==
    {i \in 1..Len(links) : Strip(identifier) \in LinkKeys(links[i])}

\* C13 (as amended): when the identifier equals a stored string or a
\* decomposed token of some mapping, resolution returns the user of a
\* mapping that stores it, the last such mapping in iteration order when
\* several store it, whatever substring matches come earlier in iteration
\* order.
C13_ResolutionPrecedence ==
    (probe.fn = "resolve" /\ probe.done) =>
        LET holders == Holders(probe.links, probe.identifier)
        IN  holders # {} =>
                /\ \E i \in holders : probe.user_id = probe.links[i].userID
                /\ probe.user_id =
                       probe.links[CHOOSE i \in holders : \A j \in holders : j <= i].userID

\* C13 witness: "E04" is stored for u1 only, and the mapping of u2, whose
\* "E0" is a substring of it, comes first
C13_Witness ==
    /\ probe.fn = "resolve"
    /\ probe.done
    /\ probe.identifier = I_E04
    /\ Len(probe.links) = 2
    /\ probe.links[1].userID = "u2"
    /\ probe.links[1].sheets_identifier = I_E0
    /\ Holders(probe.links, probe.identifier) = {2}
    /\ probe.user_id = "u1"

\* C13 as stated: resolution returns the user of every mapping that stores
\* the identifier.
C13_Original ==
    (probe.fn = "resolve" /\ probe.done) =>
        \A i \in Holders(probe.links, probe.identifier) :
            probe.user_id = probe.links[i].userID

\* the users some row of the snapshot resolves to
ResolvedUsers(schedule_def_id, sheets_data) ==
    {u \in Users : RowsOf(schedule_def_id, u, sheets_data) # <<>>}

\* the rows of the snapshot that resolve to no user
UnresolvedRows(schedule_def_id, sheets_data) ==
    LET identifier_column == FindIdentifierColumn(sheets_data.columns)
    IN  {i \in 1..Len(sheets_data.data) :
            LET identifier == RowGet(sheets_data.columns, sheets_data.data[i],
                                     identifier_column)
            IN  \/ identifier = <<>>
                \/ ResolveUser(identifier, identifier_to_user(schedule_def_id)) = None}

\* the invocation went through the row loop of a snapshot and no statement
\* of the loop raised
RowsRead(s) ==
    /\ Done(s)
    /\ sync[s].sheets_data # 0
    /\ ParseOutcome(Snapshots[sync[s].sheets_data]) = "rows"
    /\ sync[s].result.error # M_DB

\* C14: rows whose identifier resolves to no user are skipped and do not
\* fail the sync: it returns success, and users_synced is the number of
\* distinct users that some row resolved to.
C14_PartialFailureTolerance ==
    \A s \in Threads :
        RowsRead(s) =>
            /\ sync[s].result.success
            /\ Ticket(s).status = "success"
            /\ sync[s].result.users_synced =
                   Cardinality(ResolvedUsers(sync[s].schedule_def_id,
                                             Snapshots[sync[s].sheets_data]))
            /\ Ticket(s).users_synced = sync[s].result.users_synced

\* C14 witness: three rows, one of them unresolvable, two distinct users
C14_Witness ==
    \E s \in Threads :
        /\ RowsRead(s)
        /\ Len(Snapshots[sync[s].sheets_data].data) = 3
        /\ Cardinality(UnresolvedRows(sync[s].schedule_def_id,
                                      Snapshots[sync[s].sheets_data])) = 1
        /\ sync[s].result.success
        /\ sync[s].result.users_synced = 2
        /\ sync[s].result.rows_synced > 0

\* the last read asked for a month of an existing schedule, found no entry
\* and no completed ticket of the schedule
MissWithoutTicket ==
    /\ request.endpoint # "none"
    /\ request.month # <<>>
    /\ request.schedule_def_id # None
    /\ ~request.hit
    /\ request.last_synced_at = NoTime

\* the sync a read started is called with sync_type 'auto', triggered_by
\* None and force False
AutoArguments(s) ==
    sync[s].pc # "idle" =>
        /\ sync[s].force = FALSE
        /\ sync[s].sync_log # 0 =>
               /\ Ticket(s).sync_type = "auto"
               /\ Ticket(s).triggered_by = None

\* a read returns without a step of the sync it started: the step that
\* answers the read changes no ticket, no cache entry and no sync thread,
\* and only queues the thread it starts
ReadDoesNotWait ==
    request' # request =>
        /\ UNCHANGED <<ledger, cache, sync>>
        /\ launched' = IF request'.launches = 1
                       THEN Append(launched, request'.schedule_def_id)
                       ELSE launched

TicketsOf(schedule_def_id) ==
    {i \in 1..Len(ledger) : ledger[i].schedule_def_id = schedule_def_id}

\* every sync the sweep calls is a scheduled one, without initiator and
\* without force, of an active schedule
ScheduledArguments ==
    /\ \A i \in 1..Len(ledger) :
          /\ ledger[i].sync_type = "scheduled"
          /\ ledger[i].triggered_by = None
          /\ ledger[i].schedule_def_id \in ActiveIds
    /\ sync[Worker].pc # "idle" =>
          /\ sync[Worker].force = FALSE
          /\ sync[Worker].schedule_def_id \in ActiveIds

\* no sync is called and no ticket is created for a schedule that has a
\* success less than min_minutes old
NothingForFresh ==
    /\ sync[Worker].pc # "idle" =>
           FreshSuccesses(sync[Worker].schedule_def_id,
                          sync[Worker].ledger_at_start,
                          sync[Worker].invoked_at) = {}
    /\ \A i \in 1..Len(ledger) :
           FreshSuccesses(ledger[i].schedule_def_id, i - 1, ledger[i].started_at) = {}

\* the loop body of the sweep, run for a fresh schedule, calls nothing
FreshIsSkipped ==
    (/\ sweep.pc = "loop"
     /\ sweep.todo # <<>>
     /\ sweep' # sweep
     /\ FreshSuccesses(Head(sweep.todo), Len(ledger), now) # {}) =>
        UNCHANGED <<ledger, cache, sync, started>>

\* successful syncs of a schedule are at least min_minutes apart
SuccessesBounded ==
    \A id \in ActiveIds :
        Cardinality({i \in TicketsOf(id) : ledger[i].status = "success"})
            <= (now \div min_minutes) + 1

\* C16 (amended): each sweep run calls the sync with sync_type 'scheduled',
\* triggered_by None, force False, for active schedules only; for a
\* schedule with a successful sync less than 10 minutes old the sweep calls
\* nothing, fetches nothing and creates no ticket, so the number of
\* successful syncs of a schedule does not grow with the sweep frequency.
C16_ScheduledSweep ==
    /\ [](ScheduledArguments /\ NothingForFresh /\ SuccessesBounded)
    /\ [][FreshIsSkipped]_vars

\* C16 witness: the second sweep run has finished and did not sync the
\* schedule T1, whose success is less than 10 minutes old
C16_Witness ==
    /\ sweep.runs = 2
    /\ sweep.pc = "idle"
    /\ ~sweep.raised
    /\ \E i \in TicketsOf("T1") :
          /\ ledger[i].status = "success"
          /\ now - ledger[i].completed_at < min_minutes
    /\ Cardinality(TicketsOf("T1")) = 1
    /\ \A k \in 1..Len(sweep.results) : sweep.results[k].schedule_def_id # "T1"

\* C16 as stated: the number of fetches of a schedule does not grow with
\* the sweep frequency: the tickets of a schedule, each of which stands
\* for at least one fetch, are at most one per 10 minutes
C16_Original ==
    \A id \in ActiveIds :
        Cardinality(TicketsOf(id)) <= (now \div min_minutes) + 1

\* the invocation was given an id that no schedule definition has
UnknownTarget(s) ==
    /\ sync[s].pc # "idle"
    /\ \A d \in ScheduleDefinitions : d.scheduleDefID # sync[s].schedule_def_id

\* C17: sync_schedule_data called with an id that matches no schedule
\* definition returns success false with an error at once, creates no
\* ticket, makes no fetch call and changes no cache entry.
C17_TargetNotFound ==
    \A s \in Threads :
        UnknownTarget(s) =>
            /\ Done(s)
            /\ ~sync[s].result.success
            /\ sync[s].result.error = M_NOT_FOUND
            /\ ~sync[s].raised
            /\ sync[s].sync_log = 0
            /\ Len(ledger) = sync[s].ledger_at_start
            /\ sync[s].fetches = 0
            /\ sync[s].sleeps = <<>>
            /\ cache = sync[s].cache_at_start

\* C17 witness: a sync of an unknown id has returned while the ledger and
\* the cache hold what an earlier sync left
C17_Witness ==
    \E s \in Threads :
        /\ UnknownTarget(s)
        /\ Done(s)
        /\ ~sync[s].result.success
        /\ Len(ledger) > 0
        /\ cache # {}

\* the sync runs inside the handling of an HTTP request: 'manual' is the
\* sync_type of the calls sync_google_sheets makes in the request itself
InForegroundRequest(s) ==
    /\ sync[s].sync_log # 0
    /\ Ticket(s).sync_type = "manual"

\* C18: every backoff sleep of the retry loop happens in the execution
\* context of a background sync (background thread or sweep task), never
\* inside the handling of a foreground HTTP request.
C18_BackoffInBackground ==
    \A s \in Threads :
        sync[s].sleeps # <<>> => ~InForegroundRequest(s)

\* the schedules of the entries of results
ResultIds == {sweep.results[k].schedule_def_id : k \in 1..Len(sweep.results)}

\* the schedules the loop has still to take
TodoIds == {sweep.todo[k] : k \in 1..Len(sweep.todo)}

\* the run has taken, or will take, every active schedule: each one is
\* still to do, was skipped as fresh, or has its entry in results
EveryTargetProcessed ==
    (sweep.pc # "idle" \/ (sweep.runs > 0 /\ ~sweep.raised)) =>
        /\ ResultIds \cup sweep.skipped \cup TodoIds = ActiveIds
        /\ sweep.pc = "idle" => sweep.todo = <<>>

\* the entry of a schedule whose sync raised or failed says success False
FailureRecorded ==
    /\ \A k \in 1..Len(sweep.results) :
          sweep.results[k].raised => ~sweep.results[k].success
    /\ (/\ sweep.pc = "loop"
        /\ sweep.results # <<>>
        /\ ~sweep.results[Len(sweep.results)].raised) =>
           /\ sync[Worker].prev.schedule_def_id =
                  sweep.results[Len(sweep.results)].schedule_def_id
           /\ sync[Worker].prev.success =
                  sweep.results[Len(sweep.results)].success

\* the task raises only when its set-up raised, before the first schedule
RaisesOnlyAtSetUp ==
    sweep.raised =>
        /\ sweep.results = <<>>
        /\ sweep.skipped = {}
        /\ sweep.pc = "idle"

\* C19: when the sync of one active schedule raises or fails, the sweep
\* records a failure result for that schedule and still processes every
\* remaining active schedule of the run; the sweep task does not raise.
C19_NoExceptionEscapesSweep ==
    /\ EveryTargetProcessed
    /\ FailureRecorded
    /\ RaisesOnlyAtSetUp
    /\ ~sync[Worker].raised

\* C19 witness: a finished run whose first schedule raised and whose second
\* schedule was then synced with success
C19_Witness ==
    /\ sweep.pc = "idle"
    /\ sweep.runs > 0
    /\ Len(sweep.results) = 2
    /\ sweep.results[1].raised
    /\ ~sweep.results[1].success
    /\ sweep.results[2].success
    /\ \E i \in TicketsOf(sweep.results[2].schedule_def_id) :
          ledger[i].status = "success"

\* a finished run whose first schedule failed at the fetch and whose second
\* schedule was then synced
C19_WitnessFailed ==
    /\ sweep.pc = "idle"
    /\ sweep.runs > 0
    /\ Len(sweep.results) = 2
    /\ ~sweep.results[1].raised
    /\ ~sweep.results[1].success
    /\ sweep.results[2].success

\* the last fetch call of the invocation failed with an error of the
\* rate-limited class, reported as an error result or raised, on an
\* attempt that was not the last one
RateLimitedBeforeLast(s) ==
    /\ sync[s].outcome.kind \in {"error", "raise"}
    /\ sync[s].outcome.has_error
    /\ IsRateLimitResult(sync[s].outcome.error)
    /\ sync[s].attempt < max_retries - 1

\* C20: every rate-limited fetch failure on a non-final attempt is followed
\* by a backoff sleep and another fetch attempt, whether the fetcher
\* returned it as an error result or raised it as an exception.
C20_UniformClassification ==
    \A s \in Threads :
        RateLimitedBeforeLast(s) => sync[s].pc \in {"sleep", "fetch"}

\* the invocation of the thread was forced and its schedule exists
Forced(s) ==
    /\ sync[s].pc # "idle"
    /\ sync[s].force
    /\ GetScheduleDef(sync[s].schedule_def_id) # {}

\* C21: sync_schedule_data(T, force=true) for an existing schedule always
\* opens a new ticket and makes at least one fetch call, even when a
\* successful sync of T completed less than 10 minutes ago.
C21_ForceBypassesFreshness ==
    \A s \in Threads :
        Forced(s) =>
            /\ ~sync[s].result.skipped
            /\ sync[s].sync_log = sync[s].ledger_at_start + 1
            /\ Len(ledger) >= sync[s].sync_log
            /\ Ticket(s).schedule_def_id = sync[s].schedule_def_id
            /\ Ticket(s).started_at = sync[s].invoked_at
            /\ sync[s].pc = "fetch" \/ sync[s].fetches >= 1

\* C21 witness: a forced sync invoked while a success of the schedule is
\* less than 10 minutes old has fetched and returned
C21_Witness ==
    \E s \in Threads :
        /\ Forced(s)
        /\ Done(s)
        /\ FreshSuccesses(sync[s].schedule_def_id, sync[s].ledger_at_start,
                          sync[s].invoked_at) # {}
        /\ sync[s].fetches >= 1
        /\ sync[s].sync_log > 1

\* the pending tickets of a schedule
PendingTickets(schedule_def_id) ==
    {i \in TicketsOf(schedule_def_id) : ledger[i].status = "pending"}

\* C22: syncs of one schedule are not de-duplicated: a non-forced sync that
\* starts while the schedule has no success within the interval passes the
\* freshness check and opens its own ticket, whatever tickets of the
\* schedule are pending; two pending tickets of one schedule can coexist
\* and the remote source is then fetched twice.
C22_NoSingleFlight ==
    \A s \in Threads :
        (/\ Unforced(s)
         /\ FreshSuccesses(sync[s].schedule_def_id, sync[s].ledger_at_start,
                           sync[s].invoked_at) = {}) =>
            /\ ~sync[s].result.skipped
            /\ sync[s].sync_log = sync[s].ledger_at_start + 1
            /\ sync[s].pc = "fetch" \/ sync[s].fetches >= 1

\* C22 witness: two syncs of T1 started by two cache misses are in flight,
\* each with its own pending ticket, and each has fetched
C22_Witness ==
    /\ Cardinality(PendingTickets("T1")) = 2
    /\ \A s \in Threads :
          /\ Unforced(s)
          /\ sync[s].schedule_def_id = "T1"
          /\ sync[s].fetches >= 1
          /\ Ticket(s).status = "pending"
          /\ Ticket(s).sync_type = "auto"
    /\ sync[1].sync_log # sync[2].sync_log

\* the sync of the thread is in flight and has made no commit yet
InFlight(s) == sync[s].pc \in {"fetch", "sleep", "parse", "row", "commit"}

\* a read answered while the sync is in flight returns the entries the
\* cache held for its key when the sync started
ReadSeesPreSync ==
    (/\ request' # request
     /\ InFlight(2)
     /\ request'.schedule_def_id = sync[2].schedule_def_id) =>
        request'.schedule =
            get_user_schedule(sync[2].cache_at_start, request'.user_id,
                              request'.schedule_def_id, request'.month)

\* C23: a read of (user, schedule) that runs while a sync of the schedule
\* is in flight and has not yet committed returns exactly the entries
\* cached before the sync started, never a mixture of old and new ones.
C23_MidSyncReads ==
    [][/\ ReadSeesPreSync
       /\ (InFlight(2) => cache = sync[2].cache_at_start)']_vars

\* C23 witness: my_schedule answered u1 with the entries of the earlier
\* sync while the next sync, of another snapshot, had staged its delete and
\* its merges
C23_Witness ==
    /\ sync[2].pc = "commit"
    /\ request.sync_pc = "commit"
    /\ sync[2].session # NoSession
    /\ sync[2].prev.sheets_data # sync[2].sheets_data
    /\ request.user_id = "u1"
    /\ request.schedule # {}
    /\ request.schedule =
           get_user_schedule(sync[2].cache_at_start, "u1",
                             request.schedule_def_id, request.month)
    /\ request.schedule # get_user_schedule(sync[2].session.ins, "u1",
                             request.schedule_def_id, request.month)

\* the invocation of the thread has a ticket and has not returned
Running(s) == sync[s].pc \notin {"idle", "done"}

\* the invocation has returned a result and its ticket is not pending
Finished(s) ==
    /\ Done(s)
    /\ sync[s].sync_log # 0
    /\ Ticket(s).status \in {"success", "failed"}
    /\ Ticket(s).completed_at # NoTime
    /\ sync[s].result.success = (Ticket(s).status = "success")

\* C24: provided every fetch call returns and the process does not crash,
\* every invocation that opens a ticket eventually returns a result and its
\* ticket eventually leaves status pending; no invocation retries forever.
C24_SyncTerminates ==
    /\ Running(1) ~> Finished(1)
    /\ [](sync[1].fetches <= max_retries /\ Len(sync[1].sleeps) < max_retries)

\* C24 witness: an invocation that was rate limited on every attempt has
\* returned and its ticket is failed
C24_Witness ==
    /\ Finished(1)
    /\ sync[1].fetches = max_retries
    /\ Len(sync[1].sleeps) = max_retries - 1
    /\ Ticket(1).status = "failed"

\* the committed entries of the schedule that belong to the users the
\* snapshot of the sync resolved: what the sync has written
WrittenBy(s) ==
    {e \in cache :
        /\ e.schedule_def_id = sync[s].schedule_def_id
        /\ e.user_id \in ResolvedUsers(sync[s].schedule_def_id,
                                       Snapshots[sync[s].sheets_data])}

\* C25: on a successful sync the ticket and the result carry rows_synced
\* equal to the number of cache entries written by the sync and users_synced
\* equal to the number of distinct resolved users, and the result's
\* last_synced_at is the ticket's completed_at.
C25_SuccessCounts ==
    \A s \in Threads :
        Stored(s) =>
            /\ sync[s].result.rows_synced = Cardinality(WrittenBy(s))
            /\ Ticket(s).rows_synced = sync[s].result.rows_synced
            /\ sync[s].result.users_synced =
                   Cardinality(ResolvedUsers(sync[s].schedule_def_id,
                                             Snapshots[sync[s].sheets_data]))
            /\ Ticket(s).users_synced = sync[s].result.users_synced
            /\ sync[s].result.last_synced_at = Ticket(s).completed_at

\* the counts of C25 without the number of entries
C25_OtherCounts ==
    \A s \in Threads :
        Stored(s) =>
            /\ Ticket(s).rows_synced = sync[s].result.rows_synced
            /\ sync[s].result.users_synced =
                   Cardinality(ResolvedUsers(sync[s].schedule_def_id,
                                             Snapshots[sync[s].sheets_data]))
            /\ Ticket(s).users_synced = sync[s].result.users_synced
            /\ sync[s].result.last_synced_at = Ticket(s).completed_at
            /\ sync[s].result.rows_synced >= Cardinality(WrittenBy(s))

\* the strings of a mapping in the order lines 203-211 store them
LinkKeySeq(m) ==
    <<m.sheets_identifier>>
        \o (IF m.sheets_name_id = <<>> THEN <<>> ELSE <<m.sheets_name_id>>)
        \o (IF InSeq("/", m.sheets_name_id)
            THEN SelectSeq([i \in 1..Len(SplitOn(m.sheets_name_id, "/")) |->
                               Strip(SplitOn(m.sheets_name_id, "/")[i])],
                           LAMBDA p : p # <<>>)
            ELSE <<>>)

\* the stored strings of all mappings, each with the position of its mapping
RECURSIVE StoredFrom(_, _)
StoredFrom(links, i) ==
    IF i > Len(links) THEN <<>>
    ELSE [k \in 1..Len(LinkKeySeq(links[i])) |->
             [key |-> LinkKeySeq(links[i])[k], link |-> i]] \o StoredFrom(links, i + 1)

\* the positions of the stored strings that contain the identifier or are
\* contained in it
SubstringMatches(links, identifier) ==
    {k \in 1..Len(StoredFrom(links, 1)) :
        \/ IsSubstr(Strip(identifier), StoredFrom(links, 1)[k].key)
        \/ IsSubstr(StoredFrom(links, 1)[k].key, Strip(identifier))}

\* the first stored string that matches as a substring
FirstMatch(links, identifier) ==
    StoredFrom(links, 1)[CHOOSE k \in SubstringMatches(links, identifier) :
                            \A j \in SubstringMatches(links, identifier) : k <= j]

\* C26 (as amended): when the stripped identifier equals no stored string or
\* token, resolution takes the first stored string, in the order the
\* mappings are read and their strings stored, that contains the identifier
\* or is contained in it, and returns the user of the last mapping that
\* stores that string; when no stored string matches in either direction
\* the row resolves to no user.
C26_SubstringFallback ==
    (probe.fn = "resolve" /\ probe.done
        /\ Holders(probe.links, probe.identifier) = {}) =>
        IF SubstringMatches(probe.links, probe.identifier) = {}
        THEN probe.user_id = None
        ELSE LET holders == Holders(probe.links,
                                    FirstMatch(probe.links, probe.identifier).key)
             IN  probe.user_id =
                     probe.links[CHOOSE i \in holders : \A j \in holders : j <= i].userID

\* C26 witness: "E041" is stored by no mapping; "E0" of the first mapping
\* and "E04" of the second are both contained in it, and the user of the
\* first is returned
C26_Witness ==
    /\ probe.fn = "resolve"
    /\ probe.done
    /\ probe.identifier = I_E041
    /\ Len(probe.links) = 2
    /\ probe.links[1].userID = "u1"
    /\ probe.links[1].sheets_identifier = I_E0
    /\ probe.links[1].sheets_name_id = <<>>
    /\ probe.links[2].sheets_identifier = I_E04
    /\ Holders(probe.links, probe.identifier) = {}
    /\ probe.user_id = "u1"

\* C26 as stated: the user of the mapping whose string is the first to
\* match is returned.
C26_Original ==
    (probe.fn = "resolve" /\ probe.done
        /\ Holders(probe.links, probe.identifier) = {}) =>
        IF SubstringMatches(probe.links, probe.identifier) = {}
        THEN probe.user_id = None
        ELSE probe.user_id =
                 probe.links[FirstMatch(probe.links, probe.identifier).link].userID

\* C27: the cache holds at most one entry for each (user, schedule, date).
C27_OneEntryPerKey ==
    \A a, b \in cache : SameKey(a, b) => a = b

\* C27 witness: an invocation went through snapshot 3, whose first row has
\* two headers of 2025-11-01 (cells D and N), and the cache holds the entry
\* of the second of them
C27_Witness ==
    \E s \in Threads :
        /\ Done(s)
        /\ sync[s].sheets_data = 3
        /\ \E e \in cache :
              /\ e.user_id = "u1"
              /\ e.schedule_def_id = "T1"
              /\ e.date = _parse_date(H_1101)
              /\ e.date = _parse_date(H_1101_SLASH)
              /\ e.shift_type = "N"

\* the words that name a shift, and the shift each names
ShiftWords ==
    [w \in {S_OFF, S_REST, S_LEAVE, S_EVENING, S_SWING, S_NIGHT, S_GRAVE,
            S_DAY, S_WHITE} |->
        IF w \in {S_OFF, S_REST, S_LEAVE} THEN "OFF"
        ELSE IF w \in {S_EVENING, S_SWING} THEN "E"
        ELSE IF w \in {S_NIGHT, S_GRAVE} THEN "N"
        ELSE "D"]

\* the time range shown for each shift
TimeRangeOf ==
    [k \in {"D", "E", "N", "OFF"} |->
        IF k = "D" THEN "08:00 - 16:00"
        ELSE IF k = "E" THEN "16:00 - 00:00"
        ELSE IF k = "N" THEN "00:00 - 08:00"
        ELSE "--"]

\* C28: a stored cell gets a shift_type in {D, E, N, OFF}; a cell that is
\* the single letter D, E or N in either case is stored with that letter,
\* whatever keywords exist; a stored text that is no letter code, no shift
\* word and holds no keyword gets D; and time_range is determined by
\* shift_type alone.
C28_ShiftClassification ==
    (probe.fn = "classify" /\ probe.done) =>
        LET text == Upper(Strip(probe.cell))
        IN  /\ probe.stored => probe.shift_type \in {"D", "E", "N", "OFF"}
            /\ text \in {<<"D">>, <<"E">>, <<"N">>} =>
                   probe.stored /\ probe.shift_type = text[1]
            /\ (/\ probe.stored
                /\ text \notin {<<"D">>, <<"E">>, <<"N">>}
                /\ text \notin DOMAIN ShiftWords
                /\ \A k \in ShiftKeywords : ~IsSubstr(k, text)) =>
                   probe.shift_type = "D"
            /\ probe.stored => probe.time_range = TimeRangeOf[probe.shift_type]

\* C28 witness: the cell "e" was classified as E with the evening range
C28_Witness ==
    /\ probe.fn = "classify"
    /\ probe.done
    /\ probe.cell = <<"e">>
    /\ probe.stored
    /\ probe.shift_type = "E"
    /\ probe.time_range = "16:00 - 00:00"

\* C28 witness: a text that is no code and holds no keyword was stored as D
C28_WitnessDefault ==
    /\ probe.fn = "classify"
    /\ probe.done
    /\ probe.cell = <<"E", "D">>
    /\ probe.stored
    /\ probe.shift_type = "D"

\* the columns of a row, by position, whose header parses to date d and
\* whose cell holds a text other than NULL
GoodColumns(sheets_data, row, d) ==
    {j \in 1..Len(sheets_data.columns) :
        /\ sheets_data.columns[j] # FindIdentifierColumn(sheets_data.columns)
        /\ _parse_date(sheets_data.columns[j]) = d
        /\ Strip(row[j]) # <<>>
        /\ Upper(Strip(row[j])) \notin {S_NULL}}

\* the dates the headers of the snapshot parse to
HeaderDates(sheets_data) ==
    {_parse_date(sheets_data.columns[j]) : j \in 1..Len(sheets_data.columns)}
        \ {NoDate}

\* what a row leaves in the session for its user: for each date with a
\* usable cell, the classification of the last such cell
ExpectedOfRow(schedule_def_id, user_id, sheets_data, row) ==
    {CachedSchedule(schedule_def_id, user_id, d,
         _normalize_shift_type(Strip(row[
             CHOOSE j \in GoodColumns(sheets_data, row, d) :
                 \A k \in GoodColumns(sheets_data, row, d) : k <= j]))) :
        d \in {x \in HeaderDates(sheets_data) : GoodColumns(sheets_data, row, x) # {}}}

\* C29: once the row loop has passed a row that resolves to a user, the
\* session holds for that user exactly the entries of the row's usable
\* cells: a column whose header does not parse and a cell that is empty or
\* the text NULL leave no entry, every other cell of the row leaves its
\* entry; and an invocation that read the rows without a database error
\* returns success.
C29_PerCellTolerance ==
    \A s \in Threads :
        /\ (sync[s].pc \in {"row", "commit"} /\ sync[s].row > 1) =>
              LET sheets_data == Snapshots[sync[s].sheets_data]
                  row == sheets_data.data[sync[s].row - 1]
                  identifier == RowGet(sheets_data.columns, row,
                                       sync[s].identifier_column)
                  user_id == ResolveUser(identifier,
                                 identifier_to_user(sync[s].schedule_def_id))
              IN  (identifier # <<>> /\ user_id # None) =>
                      {e \in sync[s].session.ins :
                          e.user_id = user_id
                          /\ e.schedule_def_id = sync[s].schedule_def_id}
                        = ExpectedOfRow(sync[s].schedule_def_id, user_id,
                                        sheets_data, row)
        /\ RowsRead(s) => sync[s].result.success

\* C29 witness: snapshot 1 (a column "note", a NULL cell in the row of u2)
\* was synced with success; the cache holds the two entries of u1 and the
\* one entry of u2
C29_Witness ==
    \E s \in Threads :
        /\ Done(s)
        /\ sync[s].sheets_data = 1
        /\ sync[s].result.success
        /\ {<<e.date, e.shift_type>> : e \in {x \in cache : x.user_id = "u1"}}
              = {<<_parse_date(H_1101), "D">>, <<_parse_date(H_1102), "E">>}
        /\ {<<e.date, e.shift_type>> : e \in {x \in cache : x.user_id = "u2"}}
              = {<<_parse_date(H_1101), "N">>}

\* what identifies a ticket: the fields create_sync_log gives it
TicketIdentity(ticket) ==
    <<ticket.schedule_def_id, ticket.tenant_id, ticket.sync_type,
      ticket.triggered_by, ticket.started_at>>

\* the number of tickets of a schedule in a ledger
TicketCount(log, schedule_def_id) ==
    Cardinality({i \in 1..Len(log) : log[i].schedule_def_id = schedule_def_id})

\* thread s enters sync_schedule_data in this step
Invokes(s) == sync[s].pc = "idle" /\ sync'[s].pc # "idle"

\* one step of the ledger: every ticket stays, at most one is added, and
\* one is added exactly by an invocation whose schedule exists and which is
\* not skipped
LedgerStep ==
    /\ Len(ledger') \in {Len(ledger), Len(ledger) + 1}
    /\ \A i \in 1..Len(ledger) :
          TicketIdentity(ledger'[i]) = TicketIdentity(ledger[i])
    /\ \A id \in TargetIds : TicketCount(ledger', id) >= TicketCount(ledger, id)
    /\ \A s \in Threads :
          Invokes(s) =>
              /\ Len(ledger') = Len(ledger) + 1
                    <=> /\ GetScheduleDef(sync'[s].schedule_def_id) # {}
                        /\ ~sync'[s].result.skipped
              /\ Len(ledger') = Len(ledger) + 1 =>
                    /\ sync'[s].sync_log = Len(ledger')
                    /\ ledger'[Len(ledger')].schedule_def_id = sync'[s].schedule_def_id
                    /\ ledger'[Len(ledger')].status = "pending"
    /\ (\A s \in Threads : ~Invokes(s)) => Len(ledger') = Len(ledger)

\* C30: no step removes a ticket or changes which invocation it records;
\* an invocation adds one ticket when its schedule exists and it is not
\* skipped and none otherwise, and nothing else adds a ticket, so the
\* number of tickets of each schedule never decreases.
C30_AppendOnlyLedger == [][LedgerStep]_vars

\* C30 witness: two invocations were made for T1; the first left one
\* ticket, now completed, and the second was skipped and left none
C30_Witness ==
    /\ started = 2
    /\ Len(ledger) = 1
    /\ ledger[1].schedule_def_id = "T1"
    /\ ledger[1].status = "success"
    /\ \E s \in Threads :
          /\ Done(s)
          /\ sync[s].schedule_def_id = "T1"
          /\ sync[s].result.skipped

\* the invocation of thread s opened a ticket and has returned
ReturnedWithTicket(s) == Done(s) /\ ~sync[s].raised /\ sync[s].sync_log # 0

C32_RowsSyncedMatchesCache ==
    \A s \in Threads :
        (Done(s) /\ sync[s].result.success /\ ~sync[s].result.skipped
            /\ \A o \in Threads \ {s} : sync[o].pc \in {"idle", "done"}) =>
            sync[s].result.rows_synced =
                Cardinality({e \in cache :
                                /\ e.schedule_def_id = sync[s].schedule_def_id
                                /\ e.user_id \in sync[s].synced_users})

\* the successful tickets of a schedule
SuccessTickets(schedule_def_id) ==
    {i \in 1..Len(ledger) : /\ ledger[i].schedule_def_id = schedule_def_id
                            /\ ledger[i].status = "success"}

\* the sync of thread s holds the most recently completed successful
\* ticket of its schedule
HoldsLatestSuccess(s) ==
    /\ Stored(s)
    /\ \A i \in SuccessTickets(sync[s].schedule_def_id) \ {sync[s].sync_log} :
          ledger[i].completed_at < Ticket(s).completed_at

\* C33: once no sync is running, the cache entries of every user synced by
\* the sync that holds the most recently completed successful ticket of the
\* schedule are the entries derived from the snapshot that sync fetched.
C33_CacheFollowsLatestTicket ==
    (\A o \in Threads : sync[o].pc \in {"idle", "done"}) =>
        \A s \in Threads :
            HoldsLatestSuccess(s) =>
                \A u \in sync[s].synced_users :
                    CacheOf(cache, u, sync[s].schedule_def_id)
                        = Derived(sync[s].schedule_def_id, u,
                                  Snapshots[sync[s].sheets_data])

\* the users some row of the snapshot fetched by thread s resolves to; none
\* while no snapshot is fetched
UsersInSnapshot(s) ==
    IF sync[s].sheets_data = 0 THEN {}
    ELSE ResolvedUsers(sync[s].schedule_def_id, Snapshots[sync[s].sheets_data])

\* C34: from the start of an invocation to its return, the cache entries
\* of every user that no row of the fetched snapshot resolves to are the
\* entries the cache held for the user when the invocation started.
C34_AbsentUsersUntouched ==
    \A s \in Sequential :
        sync[s].pc # "idle" =>
            \A u \in Users \ UsersInSnapshot(s) :
                CacheOf(cache, u, sync[s].schedule_def_id)
                    = CacheOf(sync[s].cache_at_start, u, sync[s].schedule_def_id)

\* C34 witness: a sync of a snapshot with rows of u1 only returned success
\* and changed the entries of u1, and the entry u2 had before is still there
C34_Witness ==
    \E s \in Sequential :
        /\ Stored(s)
        /\ UsersInSnapshot(s) = {"u1"}
        /\ CacheOf(sync[s].cache_at_start, "u2", "T1") # {}
        /\ CacheOf(cache, "u2", "T1") = CacheOf(sync[s].cache_at_start, "u2", "T1")
        /\ CacheOf(cache, "u1", "T1") # CacheOf(sync[s].cache_at_start, "u1", "T1")

\* the users that have an active mapping for the schedule
LinkedUsers(schedule_def_id) ==
    {EmployeeMappings[i].userID : i \in
        {j \in 1..Len(EmployeeMappings) :
            /\ EmployeeMappings[j].schedule_def_id = schedule_def_id
            /\ EmployeeMappings[j].is_active}}

\* one step seen from the other schedules: a cache entry that appears or
\* disappears, a ticket that changes and a ticket that is added belong to
\* the schedule of a sync in progress, and a sync resolves rows only to
\* users that have a mapping for its schedule
IsolatedStep ==
    /\ \A e \in (cache' \ cache) \cup (cache \ cache') :
          \E s \in Threads : /\ sync[s].pc \notin {"idle", "done"}
                             /\ sync[s].schedule_def_id = e.schedule_def_id
    /\ \A i \in 1..Len(ledger) :
          ledger'[i] # ledger[i] =>
              \E s \in Threads : /\ sync[s].pc \notin {"idle", "done"}
                                 /\ sync[s].sync_log = i
                                 /\ sync[s].schedule_def_id = ledger[i].schedule_def_id
    /\ Len(ledger') > Len(ledger) =>
          \E s \in Threads :
              /\ Invokes(s)
              /\ ledger'[Len(ledger')].schedule_def_id = sync'[s].schedule_def_id
    /\ \A s \in Threads :
          sync'[s].synced_users \subseteq LinkedUsers(sync'[s].schedule_def_id)

\* C35: a sync of one schedule resolves rows through the mappings of that
\* schedule only, and no step of it adds, changes or removes a cache entry
\* or a ticket of another schedule.
C35_TargetIsolation == [][IsolatedStep]_vars

\* C35 witness: the sweep has synced T3 on a snapshot with a row "E04",
\* for which only other schedules have a mapping; no user was resolved, and
\* the entries and the ticket of T1 are as they were when the sync started
C35_Witness ==
    /\ Done(Worker)
    /\ sync[Worker].schedule_def_id = "T3"
    /\ sync[Worker].result.success
    /\ sync[Worker].sheets_data = 2
    /\ sync[Worker].synced_users = {}
    /\ \E e \in cache : e.schedule_def_id = "T1"
    /\ cache = sync[Worker].cache_at_start
    /\ \E i \in 1..Len(ledger) :
          ledger[i].schedule_def_id = "T1" /\ ledger[i].status = "success"

\* the invocation of thread s was skipped, and since the last success of
\* its schedule a sync of the schedule has completed with status failed
SkippedAfterFailure(s) ==
    /\ Done(s)
    /\ sync[s].result.skipped
    /\ CompletionTimes(sync[s].schedule_def_id, {"success"}) # {}
    /\ \E t \in CompletionTimes(sync[s].schedule_def_id, {"failed"}) :
          t > Latest(CompletionTimes(sync[s].schedule_def_id, {"success"}))

\* C36 (as amended): when a non-forced sync is skipped after a forced sync
\* of the schedule failed later than the last success, the last_synced_at
\* it returns is the completion time of that failed ticket, the most
\* recently completed ticket, and so later than the last success.
C36_SkipReportsLastCompleted ==
    \A s \in Threads :
        SkippedAfterFailure(s) =>
            /\ ~sync[s].force
            /\ sync[s].result.last_synced_at =
                   Latest(CompletionTimes(sync[s].schedule_def_id, {"failed"}))
            /\ sync[s].result.last_synced_at >
                   Latest(CompletionTimes(sync[s].schedule_def_id, {"success"}))

\* C36 witness: a success at minute 0, a forced sync that failed at minute
\* 5, and a non-forced sync skipped at minute 5 that reports minute 5
C36_Witness ==
    \E s \in Threads :
        /\ SkippedAfterFailure(s)
        /\ Len(ledger) = 2
        /\ ledger[1].status = "success" /\ ledger[1].completed_at = 0
        /\ ledger[2].status = "failed" /\ ledger[2].completed_at = 5
        /\ sync[s].invoked_at = 5
        /\ sync[s].result.last_synced_at = 5

\* C36 as stated: the skipped sync reports the completion time of the most
\* recent successful ticket also when a failed sync completed after it.
C36_Original ==
    \A s \in Threads :
        SkippedAfterFailure(s) =>
            sync[s].result.last_synced_at =
                Latest(CompletionTimes(sync[s].schedule_def_id, {"success"}))

\* the step answers a read
AnswersRead == request' # request

NoOpSuccess(s) ==
    /\ Done(s)
    /\ sync[s].result.success
    /\ ~sync[s].result.skipped
    /\ sync[s].result.users_synced = 0

\* C38: when a sync returns success with users_synced = 0, the cache is
\* what it was when the sync started, and the snapshot was one without a
\* final output sheet, without data, without an identifier column, or
\* without a row that resolves to a user.
C38_NoOpSuccess ==
    \A s \in Sequential :
        NoOpSuccess(s) =>
            /\ cache = sync[s].cache_at_start
            /\ sync[s].result.rows_synced = 0
            /\ \/ ParseOutcome(Snapshots[sync[s].sheets_data]) = "nothing"
               \/ ResolvedUsers(sync[s].schedule_def_id,
                                Snapshots[sync[s].sheets_data]) = {}

\* C38 witness: the cache held entries, a sync then went through a
\* snapshot none of whose rows resolves to a user and returned success with
\* no user, and the entries are still there
C38_Witness ==
    \E s \in Sequential :
        /\ NoOpSuccess(s)
        /\ sync[s].sheets_data = 9
        /\ sync[s].row = 3
        /\ cache # {}
        /\ cache = sync[s].cache_at_start

\* the invocation of thread s passed the freshness check and is over
FetchedAndOver(s) == Done(s) /\ sync[s].sync_log # 0

\* C39: where fetch_schedule_data is None, a sync that passes the freshness
\* check makes one fetch attempt, never sleeps or retries, returns a result
\* with success false and an error message without raising, and its ticket
\* is finalized with status failed.
C39_FetcherUnavailable ==
    \A s \in Unloaded :
        /\ sync[s].pc \in {"idle", "fetch", "done"}
        /\ sync[s].fetches <= 1
        /\ sync[s].sleeps = <<>>
        /\ FetchedAndOver(s) =>
              /\ sync[s].fetches = 1
              /\ ~sync[s].raised
              /\ ~sync[s].result.success
              /\ ~sync[s].result.skipped
              /\ sync[s].result.has_error
              /\ sync[s].result.error = M_NOT_CALLABLE
              /\ Ticket(s).status = "failed"
              /\ Ticket(s).completed_at # NoTime
              /\ Ticket(s).error_message = M_NOT_CALLABLE

\* C39 witness: the thread without a fetcher has made its one attempt and
\* holds the failure result, while the thread with a fetcher slept once
C39_Witness ==
    /\ \E s \in Unloaded :
          /\ FetchedAndOver(s)
          /\ sync[s].fetches = 1
          /\ Ticket(s).status = "failed"
    /\ \E s \in Threads \ Unloaded : Len(sync[s].sleeps) = 1

\* the call of _fetch_with_retry under study has returned
RetryReturned == probe.fn = "_fetch_with_retry" /\ probe.pc = "returned"

\* C40: for every sequence of fetch outcomes and every max_retries >= 1,
\* one call of _fetch_with_retry makes between 1 and max_retries fetch
\* calls and sleeps one time less than it fetches, the k-th sleep lasts
\* initial_delay * 2^(k-1), the call returns at the first successful fetch,
\* and the fall-through result is never returned.
C40_RetryBounds ==
    (probe.fn = "_fetch_with_retry" /\ probe.max_retries >= 1) =>
        /\ Len(probe.outcomes) <= probe.max_retries
        /\ \A k \in 1..Len(probe.sleeps) :
               probe.sleeps[k] = initial_delay * Pow2(k - 1)
        /\ \A i \in 1..Len(probe.outcomes) :
               probe.outcomes[i].kind = "ok" =>
                   /\ i = Len(probe.outcomes)
                   /\ probe.pc = "returned"
                   /\ probe.returned = probe.outcomes[i]
        /\ probe.pc = "returned" =>
               /\ Len(probe.outcomes) >= 1
               /\ Len(probe.sleeps) = Len(probe.outcomes) - 1
               /\ ~probe.fell_through
               /\ probe.returned = probe.outcomes[Len(probe.outcomes)]

\* C40 witness: with max_retries 4 the call slept 2 and 4 after two rate
\* limits and returned the success of its third fetch
C40_Witness ==
    /\ RetryReturned
    /\ probe.max_retries = MaxRetriesBound
    /\ Len(probe.outcomes) = 3
    /\ probe.outcomes[3].kind = "ok"
    /\ probe.sleeps = <<initial_delay, 2 * initial_delay>>
    /\ probe.returned.kind = "ok"

====
